---- MODULE Spec2Model ----
(***************************************************************************)
(* The Sync Job Runner of connectors/sync_job_runner.py as a state machine. *)
(*                                                                         *)
(* One SyncJobRunner instance (the "runner") is modelled step by step: one *)
(* action per await point of execute(), sync_starts(), _sync_done() and    *)
(* the Progress Reporter task update_ingestion_stats().  The Job and the   *)
(* Connector documents of the store, the Source Provider and the Bulk Sink *)
(* (SyncOrchestrator) are the environment: their state is part of the      *)
(* model and they change it through their own actions.                     *)
(*                                                                         *)
(* A second specification, SpecStart, runs sync_starts() of several Runner *)
(* instances against the same Connector document.                          *)
(***************************************************************************)
EXTENDS Naturals, Sequences, FiniteSets

(* ------------------------------ bounds -------------------------------- *)

\* Largest cursor value the Source Provider reports (cursors are 1..MaxCursor).
MaxCursor == 2
\* Runner instances that race in SpecStart.
NumInstances == 2
\* Most documents a Source Provider yields in one run.
MaxDocs == 2

(* ----------------------------- constants ------------------------------ *)

\* Python's None, for cursors.
None == 0

\* Line 42: the longest document id Elasticsearch takes, in bytes.
ES_ID_SIZE_LIMIT == 512

\* The operation tag of an indexed document.
OP_INDEX == "index"

JobTypes == {"full", "incremental", "access_control"}
\* A job_type outside JobType, which sync_starts rejects.
AllJobTypes == JobTypes \cup {"unknown"}

Instances == 1..NumInstances

VARIABLES
    job_type,            \* self.sync_job.job_type
    native_keys,         \* connector.native, its native-API-key feature, the service's _use_native_connector_api_keys
    running,             \* self.running
    pc,                  \* the await point execute() is at
    level,               \* "start" (before try) | "body" | "handler" | "finally"
    exc,                 \* the exception propagating out of execute(), or "none"
    sync_status,         \* _sync_done's argument sync_status
    sync_error,          \* _sync_done's argument sync_error
    cause,               \* what ended the try body: the exception and the phase it came in
    connector,           \* self.connector: the fields loaded by the last reload
    connector_doc,       \* the Connector document in the store
    job_doc,             \* the Job document in the store
    data_provider,       \* self.data_provider: "none" | "created"
    provider_cursor,     \* what data_provider.sync_cursor() returns
    sync_orchestrator,   \* self.sync_orchestrator: "none" | "created" | "running" | "done" | "canceled"
    sink_error,          \* what sync_orchestrator.get_error() returns
    job_reporting_task,  \* self.job_reporting_task: "none", its await point, or how it ended
    reporter_cancel,     \* job_reporting_task.cancel() was requested
    last_cursor,         \* update_ingestion_stats' local last_cursor
    cursor,              \* update_ingestion_stats' local cursor
    tick_prev,           \* last_cursor as it was when the current tick began
    tick_flushed,        \* trigger_flush() completed in the current tick
    busy_rejected,       \* an execute() call was rejected with SyncJobRunningError
    calls,               \* the calls execute() and _sync_done completed, in order
    inst,                \* SpecStart: the racing instances
    provider_kind,       \* get_docs_incrementally of the provider's class: "default" | "overrides" | "missing"
    source,              \* the documents the provider has to yield, in order
    pipeline,            \* self.sync_job.pipeline
    consumer,            \* the async generator async_bulk was given: "none" | "prepare_docs" | "generator"
    gen,                 \* generator(): its state, the provider method it iterates, how far it is
    stream,              \* what the sink has received from its generator, in order
    ingestion_stats      \* _sync_done's local persisted_stats

ctl == <<pc, level, exc, sync_status, sync_error, cause>>
stores == <<connector_doc, job_doc>>
objects == <<data_provider, provider_cursor, sync_orchestrator, sink_error>>
reporter == <<job_reporting_task, reporter_cancel, last_cursor, cursor, tick_prev, tick_flushed>>
feed == <<provider_kind, source, pipeline, consumer, gen, stream>>
vars == <<job_type, native_keys, running, ctl, connector, stores, objects, reporter, busy_rejected,
          calls, inst, feed, ingestion_stats>>

(* ------------------------------ helpers ------------------------------- *)

\* One completed collaborator call.
Call(op, c, info) == [op |-> op, cursor |-> c, info |-> info]

Logged(op, c, info) == calls' = Append(calls, Call(op, c, info))

\* JobType.FULL / INCREMENTAL are the content family (sync_job.is_content_sync()).
is_content_sync(jt) == jt \in {"full", "incremental"}

Family(jt) == IF is_content_sync(jt) THEN "content" ELSE jt

\* An execute() whose only except clause is the last one.
StatusOf_error_only(e) == "error"

\* The except clauses of execute(), in order: which status _sync_done gets.
StatusOf(e) ==
    CASE e = "CancelledError" -> "suspended"
      [] e = "ConnectorJobCanceledError" -> "canceled"
      [] OTHER -> "error"

\* Except clauses that all pass the exception itself as sync_error.
ErrorOf_exception_itself(e) ==
    CASE e = "CancelledError" -> "none"
      [] e = "ConnectorJobCanceledError" -> "none"
      [] OTHER -> e

\* The sync_error the except clauses of execute() pass to _sync_done.
ErrorOf(e) ==
    CASE e = "CancelledError" -> "none"
      [] e = "ConnectorJobCanceledError" -> "none"
      [] e = "ElasticAuthorizationException" -> "NotAuthorizedMessage"
      [] OTHER -> e

\* A _sync_done without the cancel() branch of lines 380-381.
TerminalOp_no_cancel(status) ==
    CASE status = "error" -> "fail"
      [] status = "suspended" -> "suspend"
      [] OTHER -> "done"

\* The store call _sync_done picks for a status.
TerminalOp(status) ==
    CASE status = "error" -> "fail"
      [] status = "suspended" -> "suspend"
      [] status = "canceled" -> "cancel"
      [] OTHER -> "done"

TerminalOps == {"fail", "suspend", "cancel", "done"}

\* The status each terminal store call persists.
TerminalStatus(op) ==
    CASE op = "fail" -> "error"
      [] op = "suspend" -> "suspended"
      [] op = "cancel" -> "canceled"
      [] OTHER -> "completed"

(* --------------------------- control flow ----------------------------- *)

\* Control moves on to await point p.
Goto(p) ==
    /\ pc' = p
    /\ UNCHANGED <<level, exc, sync_status, sync_error, cause>>

\* _sync_done(sync_status=s, sync_error=err) is called.
CallSyncDone(s, err) ==
    /\ pc' = "sd_begin"
    /\ sync_status' = s
    /\ sync_error' = err
    /\ UNCHANGED <<level, exc, cause>>

\* The phase of the run an await point belongs to.
Phase(p) ==
    CASE p \in {"check_connector", "check_job", "sleep"} -> "reporting"
      [] p \in {"sd_begin", "sd_await_reporter", "sd_cancel", "sd_reload_job",
                "sd_reload_connector", "sd_document_count", "sd_terminal",
                "sd_reload_connector2", "sd_connector_sync_done"} -> "finalizing"
      [] OTHER -> "setup"

\* An execute() with no except clauses and no finally block.
Raise_unhandled(e) ==
    /\ pc' = "ended"
    /\ exc' = e
    /\ UNCHANGED <<level, sync_status, sync_error, cause>>

\* Exception e is raised at the current await point.  Before the try it leaves
\* execute(); in the try body the matching except clause calls _sync_done; in
\* an except clause it runs the finally block and then leaves; in the finally
\* block it leaves.
Raise(e) ==
    CASE level = "start" ->
            /\ pc' = "ended"
            /\ exc' = e
            /\ UNCHANGED <<level, sync_status, sync_error, cause>>
      [] level = "body" ->
            /\ pc' = "sd_begin"
            /\ level' = "handler"
            /\ sync_status' = StatusOf(e)
            /\ sync_error' = ErrorOf(e)
            /\ cause' = [exc |-> e, at |-> Phase(pc)]
            /\ UNCHANGED exc
      [] level = "handler" ->
            /\ pc' = "finally"
            /\ level' = "finally"
            /\ exc' = e
            /\ UNCHANGED <<sync_status, sync_error, cause>>
      [] OTHER ->
            /\ pc' = "ended"
            /\ exc' = e
            /\ UNCHANGED <<level, sync_status, sync_error, cause>>

(* ------------------------------ the store ------------------------------ *)

\* connector.reload(): the fields of the Connector document the Runner reads.
LoadConnector(doc) ==
    [last_sync_status |-> doc.last_sync_status,
     last_access_control_sync_status |-> doc.last_access_control_sync_status,
     sync_cursor |-> doc.sync_cursor,
     seq_no |-> doc.seq_no]

\* connector.sync_starts(job_type) is refused with a conflict when the
\* document changed since it was loaded (optimistic concurrency).
Conflicts(doc, conn) == doc.seq_no # conn.seq_no

\* connector.sync_starts(job_type): the family's last sync status becomes InProgress.
ConnectorSyncStarts(doc, jt) ==
    IF is_content_sync(jt)
    THEN [doc EXCEPT !.last_sync_status = "in_progress", !.seq_no = @ + 1]
    ELSE [doc EXCEPT !.last_access_control_sync_status = "in_progress", !.seq_no = @ + 1]

\* connector.sync_done(job, cursor): the family's last sync status becomes the
\* job's status (Error when the job is gone); a content job stores the cursor.
ConnectorSyncDone(doc, jt, status, c) ==
    IF is_content_sync(jt)
    THEN [doc EXCEPT !.last_sync_status = status, !.sync_cursor = c]
    ELSE [doc EXCEPT !.last_access_control_sync_status = status]

\* sync_job.claim(sync_cursor): the job becomes InProgress and keeps the cursor.
JobClaim(doc, c) == [doc EXCEPT !.status = "in_progress", !.sync_cursor = c]

\* sync_job.update_metadata(ingestion_stats, cursor).
JobUpdateMetadata(doc, c) == [doc EXCEPT !.sync_cursor = c]

\* sync_job.fail / suspend / cancel / done(ingestion_stats).
JobTerminal(doc, op, stats) ==
    [doc EXCEPT !.status = TerminalStatus(op), !.ingestion_stats = stats]

(* ----------------------- documents and their ids ---------------------- *)

\* A document id as str(doc.get("_id", "")) gives it: its length in
\* characters, its length in UTF-8 bytes (more when it has non-ASCII
\* characters), and the length of what the source's hash_id makes of it.
\* The ids sit at the limit and one above it.
DocIds ==
    { i \in [text : {"id"},
             chars : {ES_ID_SIZE_LIMIT, ES_ID_SIZE_LIMIT + 1},
             bytes : {ES_ID_SIZE_LIMIT, ES_ID_SIZE_LIMIT + 1},
             hash_bytes : {ES_ID_SIZE_LIMIT, ES_ID_SIZE_LIMIT + 1}] : i.chars <= i.bytes }

\* What the provider yields for one document: its id and, from
\* get_docs_incrementally, its operation.
SourceDocs == [id : DocIds, op : {OP_INDEX, "delete"}]

\* The documents a provider yields in a run, in order.
Sources == UNION { [1..n -> SourceDocs] : n \in 0..MaxDocs }

\* Sources whose hashed ids fit.
HashableSources ==
    { src \in Sources : \A k \in 1..Len(src) : src[k].id.hash_bytes = ES_ID_SIZE_LIMIT }

\* sync_job.pipeline: three settings, each with another flag set.
PipelineSettings ==
    { [extract_binary_content |-> TRUE, reduce_whitespace |-> FALSE, run_ml_inference |-> FALSE],
      [extract_binary_content |-> FALSE, reduce_whitespace |-> TRUE, run_ml_inference |-> FALSE],
      [extract_binary_content |-> FALSE, reduce_whitespace |-> FALSE, run_ml_inference |-> TRUE] }

ProviderKinds == {"default", "overrides", "missing"}

\* source_klass.hash_id(doc_id): an ASCII digest of the length the class gives it.
hash_id(id) ==
    [text |-> "hash", chars |-> id.hash_bytes, bytes |-> id.hash_bytes,
     hash_bytes |-> id.hash_bytes]

\* An optimization that does not look at the provider's own method.
skip_unchanged_documents_enabled_any_provider(jt, kind) == jt = "incremental"

\* Lines 293-310: the optimization is for incremental jobs whose provider
\* has get_docs_incrementally and did not override BaseDataSource's.
skip_unchanged_documents_enabled(jt, kind) ==
    IF jt # "incremental"
    THEN FALSE
    ELSE IF kind = "missing" THEN FALSE ELSE kind = "default"

\* Lines 497-522: the provider method generator() iterates, "none" for the
\* default case.
GeneratorMethod(jt, skip) ==
    CASE jt = "full" -> "get_docs"
      [] jt = "incremental" /\ ~skip -> "get_docs_incrementally"
      [] jt = "incremental" /\ skip -> "get_docs"
      [] jt = "access_control" -> "get_access_control"
      [] OTHER -> "none"

\* What generator() yields for the k-th document d of the provider.
GeneratorItem(method, d, k) ==
    CASE method = "get_docs" ->
            [doc |-> [key |-> k, id |-> d.id], lazy_download |-> "lazy", operation |-> OP_INDEX]
      [] method = "get_docs_incrementally" ->
            [doc |-> [key |-> k, id |-> d.id], lazy_download |-> "lazy", operation |-> d.op]
      [] OTHER ->
            [doc |-> [key |-> k, id |-> d.id], lazy_download |-> "None", operation |-> "None"]

\* Lines 465-481: prepare_docs skips the document.
Dropped(item) ==
    /\ item.doc.id.bytes > ES_ID_SIZE_LIMIT
    /\ hash_id(item.doc.id).bytes > ES_ID_SIZE_LIMIT

\* A prepare_docs that measures the id in characters, not in UTF-8 bytes.
Prepared_counting_characters(item, pl) ==
    [item EXCEPT !.doc =
        [key |-> item.doc.key,
         id |-> IF item.doc.id.chars > ES_ID_SIZE_LIMIT THEN hash_id(item.doc.id)
                ELSE item.doc.id,
         extract_binary_content |-> pl.extract_binary_content,
         reduce_whitespace |-> pl.reduce_whitespace,
         run_ml_inference |-> pl.run_ml_inference]]

\* Lines 483-491: what prepare_docs yields for a document it does not skip.
Prepared(item, pl) ==
    [item EXCEPT !.doc =
        [key |-> item.doc.key,
         id |-> IF item.doc.id.bytes > ES_ID_SIZE_LIMIT THEN hash_id(item.doc.id)
                ELSE item.doc.id,
         extract_binary_content |-> pl.extract_binary_content,
         reduce_whitespace |-> pl.reduce_whitespace,
         run_ml_inference |-> pl.run_ml_inference]]

\* Every job handing generator() itself to async_bulk.
ConsumerOf_generator_only(jt) == "generator"

\* Lines 286 and 332: the async generator async_bulk is given.
ConsumerOf(jt) == IF jt \in {"incremental", "full"} THEN "prepare_docs" ELSE "generator"

\* A generator() that has not been started.
NewGenerator ==
    [state |-> "new", method |-> "none", sync_cursor |-> None, pos |-> 0, exc |-> "none"]

\* The three counters _sync_done persists, as an empty ingestion_stats gives them.
NoStats ==
    [indexed_document_count |-> 0, indexed_document_volume |-> 0, deleted_document_count |-> 0]

\* sync_orchestrator.ingestion_stats(): the sink counts what it received,
\* every document with a volume of one.
SinkStats(docs) ==
    [indexed_document_count |->
        Cardinality({k \in 1..Len(docs) : docs[k].operation # "delete"}),
     indexed_document_volume |->
        Cardinality({k \in 1..Len(docs) : docs[k].operation # "delete"}),
     deleted_document_count |->
        Cardinality({k \in 1..Len(docs) : docs[k].operation = "delete"})]

(* --------------------------- initial states ---------------------------- *)

IdleConnector == [last_sync_status |-> "none", last_access_control_sync_status |-> "none",
                  sync_cursor |-> None, seq_no |-> 0]

IdleInstance(jt) == [pc |-> "idle", running |-> FALSE, job_type |-> jt,
                     connector |-> IdleConnector, exc |-> "none"]

\* Whether the credential exchange of native connectors applies: the
\* Connector's native flag, its native_connector_api_keys feature and the
\* service's _use_native_connector_api_keys setting.
NativeKeys ==
    [native : BOOLEAN, native_connector_api_keys_enabled : BOOLEAN,
     use_native_connector_api_keys : BOOLEAN]

\* A native Connector that uses API keys, and a Connector that is not native.
NativeOrNot == {k \in NativeKeys : k.native_connector_api_keys_enabled
                                      /\ k.use_native_connector_api_keys}

\* A Connector that is not native.
NotNative ==
    [native |-> FALSE, native_connector_api_keys_enabled |-> TRUE,
     use_native_connector_api_keys |-> TRUE]

\* A Runner as __init__ leaves it and a pending Job in the store.
InitRunner ==
    /\ running = FALSE
    /\ pc = "idle"
    /\ level = "start"
    /\ exc = "none"
    /\ sync_status = "none"
    /\ sync_error = "none"
    /\ cause = [exc |-> "none", at |-> "none"]
    /\ job_doc = [exists |-> TRUE, status |-> "pending", sync_cursor |-> None,
                  ingestion_stats |-> NoStats]
    /\ data_provider = "none"
    /\ provider_cursor = None
    /\ sync_orchestrator = "none"
    /\ sink_error = "none"
    /\ job_reporting_task = "none"
    /\ reporter_cancel = FALSE
    /\ last_cursor = None
    /\ cursor = None
    /\ tick_prev = None
    /\ tick_flushed = FALSE
    /\ busy_rejected = FALSE
    /\ calls = << >>
    /\ gen = NewGenerator
    /\ stream = << >>
    /\ ingestion_stats = NoStats

\* Before execute(): the Connector is not loaded and nothing iterates the
\* provider, which has no documents.
NoFeed ==
    /\ connector = IdleConnector
    /\ provider_kind = "default"
    /\ source = << >>
    /\ consumer = "none"
    /\ pipeline = [extract_binary_content |-> TRUE, reduce_whitespace |-> TRUE,
                   run_ml_inference |-> TRUE]

Init ==
    /\ native_keys \in NativeOrNot
    /\ InitRunner
    /\ NoFeed
    /\ job_type \in AllJobTypes
    /\ connector_doc = [exists |-> TRUE, last_sync_status |-> "none",
                        last_access_control_sync_status |-> "none",
                        sync_cursor |-> 1, seq_no |-> 0]
    /\ inst = [i \in Instances |-> IdleInstance("full")]

(* ------------------------ execute(): the start ------------------------- *)

\* A sync_starts without the in-progress checks of lines 433-452.
StartRejected_unchecked(jt, conn) == FALSE

\* A sync_starts whose checks have no else branch (lines 449-452).
StartRejected_unknown_passes(jt, conn) ==
    IF jt \in {"full", "incremental"}
    THEN conn.last_sync_status = "in_progress"
    ELSE IF jt = "access_control"
         THEN conn.last_access_control_sync_status = "in_progress"
         ELSE FALSE

\* A sync_starts that refuses a job when either family is InProgress.
StartRejected_either_family(jt, conn) ==
    \/ jt \notin {"full", "incremental", "access_control"}
    \/ conn.last_sync_status = "in_progress"
    \/ conn.last_access_control_sync_status = "in_progress"

\* Lines 433-452: sync_starts refuses an unknown job type and a job whose
\* family is already InProgress on the Connector.
StartRejected(jt, conn) ==
    IF jt \in {"full", "incremental"}
    THEN conn.last_sync_status = "in_progress"
    ELSE IF jt = "access_control"
         THEN conn.last_access_control_sync_status = "in_progress"
         ELSE TRUE

\* execute() on an idle Runner: running is set and sync_starts begins.
execute_enter ==
    /\ pc = "idle"
    /\ ~running
    /\ running' = TRUE
    /\ Goto("ss_reload")
    /\ UNCHANGED <<job_type, native_keys, connector, stores, objects, reporter,
                   busy_rejected, calls, inst, feed, ingestion_stats>>

\* An execute() that starts over on a Runner that is running.
execute_busy_restarts ==
    /\ running
    /\ busy_rejected' = TRUE
    /\ Goto("ss_reload")
    /\ UNCHANGED <<job_type, native_keys, running, connector, stores, objects, reporter, calls, inst, feed, ingestion_stats>>

\* execute() while running: SyncJobRunningError, nothing else happens.
execute_busy ==
    /\ running
    /\ busy_rejected' = TRUE
    /\ UNCHANGED <<job_type, native_keys, running, ctl, connector, stores, objects, reporter, calls, inst, feed, ingestion_stats>>

\* A sync_starts that marks the Connector before it looks at its statuses.
sync_starts_reload_marks_first ==
    /\ pc = "ss_reload"
    /\ \/ /\ ~connector_doc.exists
          /\ Raise("SyncJobStartError")
          /\ UNCHANGED <<connector, connector_doc, calls>>
       \/ /\ connector_doc.exists
          /\ connector' = LoadConnector(connector_doc)
          /\ IF StartRejected(job_type, connector')
             THEN /\ connector_doc' = ConnectorSyncStarts(connector_doc, job_type)
                  /\ Logged("connector.sync_starts", None, job_type)
                  /\ Raise("SyncJobStartError")
             ELSE /\ Goto("ss_call")
                  /\ UNCHANGED <<connector_doc, calls>>
    /\ UNCHANGED <<job_type, native_keys, running, job_doc, objects, reporter,
                   busy_rejected, inst, feed, ingestion_stats>>


\* sync_starts: reload the Connector, then the checks of lines 433-452.
sync_starts_reload ==
    /\ pc = "ss_reload"
    /\ \/ /\ ~connector_doc.exists
          /\ Raise("SyncJobStartError")
          /\ UNCHANGED connector
       \/ /\ connector_doc.exists
          /\ connector' = LoadConnector(connector_doc)
          /\ IF StartRejected(job_type, connector')
             THEN Raise("SyncJobStartError")
             ELSE Goto("ss_call")
    /\ UNCHANGED <<job_type, native_keys, running, stores, objects, reporter,
                   busy_rejected, calls, inst, feed, ingestion_stats>>

\* sync_starts: connector.sync_starts(job_type).  A conflict propagates as it
\* is; a missing document is any other exception, so SyncJobStartError.  On
\* success execute() enters its try block.
sync_starts_call ==
    /\ pc = "ss_call"
    /\ \/ /\ connector_doc.exists
          /\ Conflicts(connector_doc, connector)
          /\ Raise("ConflictError")
          /\ UNCHANGED <<connector_doc, calls>>
       \/ /\ ~connector_doc.exists
          /\ Raise("SyncJobStartError")
          /\ UNCHANGED <<connector_doc, calls>>
       \/ /\ connector_doc.exists
          /\ ~Conflicts(connector_doc, connector)
          /\ connector_doc' = ConnectorSyncStarts(connector_doc, job_type)
          /\ Logged("connector.sync_starts", None, job_type)
          /\ pc' = "claim"
          /\ level' = "body"
          /\ UNCHANGED <<exc, sync_status, sync_error, cause>>
    /\ UNCHANGED <<job_type, native_keys, running, connector, job_doc, objects, reporter, busy_rejected, inst, feed, ingestion_stats>>

(* ---------------------- execute(): the try body ------------------------ *)

\* Lines 136-161: claim the job with the Connector's cursor (content jobs
\* only), then build the data provider; a full sync restarts from the job's cursor.
claim ==
    /\ pc = "claim"
    /\ LET sync_cursor == IF job_type \in {"incremental", "full"}
                          THEN connector.sync_cursor ELSE None
       IN \/ /\ job_doc.exists
             /\ job_doc' = JobClaim(job_doc, sync_cursor)
             /\ Logged("claim", sync_cursor, "none")
             /\ data_provider' = "created"
             /\ provider_cursor' = IF sync_cursor # None /\ job_type = "full"
                                   THEN sync_cursor ELSE None
             /\ Goto("changed")
          \/ /\ ~job_doc.exists
             /\ Raise("Exception")
             /\ UNCHANGED <<job_doc, calls, data_provider, provider_cursor>>
    /\ UNCHANGED <<job_type, native_keys, running, connector, connector_doc, sync_orchestrator,
                   sink_error, reporter, busy_rejected, inst, feed, ingestion_stats>>

\* An execute() that goes on to validation whatever changed() returns.
changed_ignored ==
    /\ pc = "changed"
    /\ \E answer \in {"false", "true"} : Logged("changed", None, answer)
    /\ Goto("validate")
    /\ UNCHANGED <<job_type, native_keys, running, connector, stores, objects, reporter, busy_rejected, inst, feed, ingestion_stats>>

\* Lines 163-166: no change in the remote source ends the run as Completed.
changed ==
    /\ pc = "changed"
    /\ \/ /\ Logged("changed", None, "false")
          /\ CallSyncDone("completed", "none")
       \/ /\ Logged("changed", None, "true")
          /\ Goto("validate")
    /\ UNCHANGED <<job_type, native_keys, running, connector, stores, objects, reporter, busy_rejected, inst, feed, ingestion_stats>>

\* An execute() that creates the SyncOrchestrator before it pings the source.
validate_sink_first ==
    /\ pc = "validate"
    /\ calls' = calls \o <<Call("validate_config_fields", None, "none"),
                          Call("validate_config", None, "none")>>
    /\ sync_orchestrator' = "created"
    /\ Goto("ping")
    /\ UNCHANGED <<job_type, native_keys, running, connector, stores, data_provider, provider_cursor,
                   sink_error, reporter, busy_rejected, inst, feed, ingestion_stats>>

\* Lines 168-172: validate_config_fields() and validate_config().
validate ==
    /\ pc = "validate"
    /\ calls' = calls \o <<Call("validate_config_fields", None, "none"),
                          Call("validate_config", None, "none")>>
    /\ Goto("ping")
    /\ UNCHANGED <<job_type, native_keys, running, connector, stores, objects, reporter, busy_rejected, inst, feed, ingestion_stats>>

\* An execute() that exchanges the credentials of every native Connector.
ping_native_only ==
    /\ pc = "ping"
    /\ Logged("ping", None, "none")
    /\ IF native_keys.native
       THEN /\ Goto("native_auth")
            /\ UNCHANGED sync_orchestrator
       ELSE /\ Goto("dispatch")
            /\ sync_orchestrator' = "created"
    /\ UNCHANGED <<job_type, native_keys, running, connector, stores, data_provider, provider_cursor,
                   sink_error, reporter, busy_rejected, inst, feed, ingestion_stats>>

\* Lines 174-193: ping(), then either the credential exchange of a native
\* connector or, directly, the SyncOrchestrator.
ping ==
    /\ pc = "ping"
    /\ Logged("ping", None, "none")
    /\ IF /\ native_keys.native
          /\ native_keys.native_connector_api_keys_enabled
          /\ native_keys.use_native_connector_api_keys
       THEN /\ Goto("native_auth")
            /\ UNCHANGED sync_orchestrator
       ELSE /\ Goto("dispatch")
            /\ sync_orchestrator' = "created"
    /\ UNCHANGED <<job_type, native_keys, running, connector, stores, data_provider, provider_cursor,
                   sink_error, reporter, busy_rejected, inst, feed, ingestion_stats>>

\* What the lookup of the secret can end with, besides the key or
\* ElasticNotFoundError: another exception, or the cancellation of the task.
LookupRaises == {"Exception", "CancelledError"}

\* _update_native_connector_authentication (lines 237-262): the secret is
\* looked up and found, or it is not and ApiKeyNotFoundError is raised, or
\* the lookup ends otherwise; the finally clause closes the management
\* client in every case.
update_native_connector_authentication ==
    /\ pc = "native_auth"
    /\ \/ /\ calls' = calls \o <<Call("get_connector_secret", None, "found"),
                                Call("es_management_client.close", None, "none")>>
          /\ sync_orchestrator' = "created"
          /\ Goto("dispatch")
       \/ /\ calls' = calls \o <<Call("get_connector_secret", None, "not found"),
                                Call("es_management_client.close", None, "none")>>
          /\ Raise("ApiKeyNotFoundError")
          /\ UNCHANGED sync_orchestrator
       \/ /\ calls' = calls \o <<Call("get_connector_secret", None, "raised"),
                                Call("es_management_client.close", None, "none")>>
          /\ \E e \in LookupRaises : Raise(e)
          /\ UNCHANGED sync_orchestrator
    /\ UNCHANGED <<job_type, native_keys, running, connector, stores, data_provider,
                   provider_cursor, sink_error, reporter, busy_rejected, inst, feed,
                   ingestion_stats>>

\* Lines 195-202 with the first lines of _execute_content_sync_job and
\* _execute_access_control_sync_job, up to their first await.
dispatch ==
    /\ pc = "dispatch"
    /\ \E incremental_sync_enabled, sync_rules_enabled, requires_platinum \in BOOLEAN :
          CASE job_type \in {"incremental", "full"} ->
                  IF job_type = "incremental" /\ ~incremental_sync_enabled
                  THEN Raise("UnsupportedJobType")
                  ELSE IF sync_rules_enabled
                       THEN Goto("validate_filtering")
                       ELSE Goto("prepare_content_index")
            [] job_type = "access_control" ->
                  IF requires_platinum
                  THEN Goto("has_active_license_enabled")
                  ELSE Goto("async_bulk")
            [] OTHER -> Raise("UnsupportedJobType")
    /\ UNCHANGED <<job_type, native_keys, running, connector, stores, objects, reporter, busy_rejected, calls, inst, feed, ingestion_stats>>

\* _execute_content_sync_job: sync_job.validate_filtering(validator).
validate_filtering ==
    /\ pc = "validate_filtering"
    /\ UNCHANGED calls
    /\ Goto("prepare_content_index")
    /\ UNCHANGED <<job_type, native_keys, running, connector, stores, objects, reporter, busy_rejected, inst, feed, ingestion_stats>>

\* _execute_content_sync_job: sync_orchestrator.prepare_content_index().
prepare_content_index ==
    /\ pc = "prepare_content_index"
    /\ UNCHANGED calls
    /\ Goto("async_bulk")
    /\ UNCHANGED <<job_type, native_keys, running, connector, stores, objects, reporter, busy_rejected, inst, feed, ingestion_stats>>

\* An access control sync that starts the sink before it looks at the license.
has_active_license_enabled_late ==
    /\ pc = "has_active_license_enabled"
    /\ Logged("async_bulk", None, job_type)
    /\ Raise("InsufficientESLicenseError")
    /\ UNCHANGED <<job_type, native_keys, running, connector, stores, objects, reporter, busy_rejected, inst, feed, ingestion_stats>>

\* _execute_access_control_sync_job: the Platinum license check.
has_active_license_enabled ==
    /\ pc = "has_active_license_enabled"
    /\ \/ Goto("async_bulk")
       \/ Raise("InsufficientESLicenseError")
    /\ UNCHANGED calls
    /\ UNCHANGED <<job_type, native_keys, running, connector, stores, objects, reporter, busy_rejected, inst, feed, ingestion_stats>>

\* sync_orchestrator.async_bulk(...) starts the sink; lines 204-208 then
\* create the reporting task and enter the Reporting loop, whose first test
\* of done() finds the sink running.
async_bulk ==
    /\ pc = "async_bulk"
    /\ sync_orchestrator' = "running"
    /\ job_reporting_task' = "sleep"
    /\ calls' = calls \o <<Call("async_bulk", None, job_type),
                          Call("create_task", None, "none")>>
    /\ consumer' = ConsumerOf(job_type)
    /\ Goto("check_connector")
    /\ UNCHANGED <<job_type, native_keys, running, connector, stores, data_provider, provider_cursor,
                   sink_error, reporter_cancel, last_cursor, cursor, tick_prev,
                   tick_flushed, busy_rejected, inst, provider_kind, source, pipeline,
                   gen, stream, ingestion_stats>>

\* sync_orchestrator.done().
SinkDone == sync_orchestrator \in {"done", "canceled"}

\* check_job: reload the Connector.
check_connector ==
    /\ pc = "check_connector"
    /\ \/ /\ ~connector_doc.exists
          /\ Raise("ConnectorNotFoundError")
          /\ UNCHANGED connector
       \/ /\ connector_doc.exists
          /\ connector' = LoadConnector(connector_doc)
          /\ Goto("check_job")
    /\ UNCHANGED <<job_type, native_keys, running, stores, objects, reporter,
                   busy_rejected, calls, inst, feed, ingestion_stats>>

\* A check_job without the test of lines 573-574.
check_job_canceling_ignored ==
    /\ pc = "check_job"
    /\ \/ /\ ~job_doc.exists
          /\ Raise("ConnectorJobNotFoundError")
       \/ /\ job_doc.exists
          /\ job_doc.status \notin {"canceling", "in_progress"}
          /\ Raise("ConnectorJobNotRunningError")
       \/ /\ job_doc.exists
          /\ job_doc.status \in {"canceling", "in_progress"}
          /\ Goto("sleep")
    /\ UNCHANGED <<job_type, native_keys, running, connector, stores, objects, reporter, busy_rejected, calls, inst, feed, ingestion_stats>>

\* A check_job that tests for InProgress before it tests for Canceling.
check_job_not_running_first ==
    /\ pc = "check_job"
    /\ \/ /\ ~job_doc.exists
          /\ Raise("ConnectorJobNotFoundError")
       \/ /\ job_doc.exists
          /\ job_doc.status # "in_progress"
          /\ Raise("ConnectorJobNotRunningError")
       \/ /\ job_doc.exists
          /\ job_doc.status = "in_progress"
          /\ Goto("sleep")
    /\ UNCHANGED <<job_type, native_keys, running, connector, stores, objects, reporter, busy_rejected, calls, inst, feed, ingestion_stats>>

\* check_job: reload the Job and look at its status.
check_job ==
    /\ pc = "check_job"
    /\ \/ /\ ~job_doc.exists
          /\ Raise("ConnectorJobNotFoundError")
       \/ /\ job_doc.exists
          /\ job_doc.status = "canceling"
          /\ Raise("ConnectorJobCanceledError")
       \/ /\ job_doc.exists
          /\ job_doc.status \notin {"canceling", "in_progress"}
          /\ Raise("ConnectorJobNotRunningError")
       \/ /\ job_doc.exists
          /\ job_doc.status = "in_progress"
          /\ Goto("sleep")
    /\ UNCHANGED <<job_type, native_keys, running, connector, stores, objects, reporter, busy_rejected, calls, inst, feed, ingestion_stats>>

\* A Reporting loop that polls once and does not test done().
sleep_single_poll ==
    /\ pc = "sleep"
    /\ CallSyncDone(IF sink_error = "none" THEN "completed" ELSE "error", sink_error)
    /\ UNCHANGED <<job_type, native_keys, running, connector, stores, objects, reporter,
                   busy_rejected, calls, inst, feed, ingestion_stats>>

\* A Reporting loop with a timeout: it may give up on a sink that is not done.
sleep_gives_up ==
    /\ pc = "sleep"
    /\ \/ /\ ~SinkDone
          /\ Goto("check_connector")
       \/ CallSyncDone(IF sink_error = "none" THEN "completed" ELSE "error", sink_error)
    /\ UNCHANGED <<job_type, native_keys, running, connector, stores, objects, reporter,
                   busy_rejected, calls, inst, feed, ingestion_stats>>

\* Lines 208-213: asyncio.sleep(JOB_CHECK_INTERVAL) returns and done() is
\* tested again; when the sink is done its error decides the status.
sleep ==
    /\ pc = "sleep"
    /\ \/ /\ ~SinkDone
          /\ Goto("check_connector")
       \/ /\ SinkDone
          /\ CallSyncDone(IF sink_error = "none" THEN "completed" ELSE "error", sink_error)
    /\ UNCHANGED <<job_type, native_keys, running, connector, stores, objects, reporter,
                   busy_rejected, calls, inst, feed, ingestion_stats>>

(* ---------------------------- _sync_done ------------------------------- *)

ReporterEnded == {"finished", "failed", "cancelled"}

\* job_reporting_task is not None and not job_reporting_task.done().
ReporterPending == job_reporting_task \notin ({"none"} \cup ReporterEnded)

\* After the reporter: cancel the sink if there is one (lines 354-357).
AfterReporter ==
    IF sync_orchestrator # "none" THEN Goto("sd_cancel") ELSE Goto("sd_reload_job")

\* A _sync_done that leaves the reporting task alone.
sync_done_begin_uncancelled ==
    /\ pc = "sd_begin"
    /\ AfterReporter
    /\ UNCHANGED <<job_type, native_keys, running, connector, stores, objects, reporter,
                   busy_rejected, calls, inst, feed, ingestion_stats>>

\* Lines 348-349: a pending reporting task is cancelled.
sync_done_begin ==
    /\ pc = "sd_begin"
    /\ IF ReporterPending
       THEN /\ reporter_cancel' = TRUE
            /\ Logged("job_reporting_task.cancel", None, "none")
            /\ Goto("sd_await_reporter")
       ELSE /\ AfterReporter
            /\ UNCHANGED <<reporter_cancel, calls>>
    /\ UNCHANGED <<job_type, native_keys, running, connector, stores, objects, job_reporting_task,
                   last_cursor, cursor, tick_prev, tick_flushed, busy_rejected, inst, feed, ingestion_stats>>

\* A _sync_done that cancels the reporting task without effect and does not
\* wait for it.
sync_done_await_reporter_unawaited ==
    /\ pc = "sd_await_reporter"
    /\ reporter_cancel' = FALSE
    /\ Logged("job_reporting_task.await", None, "none")
    /\ AfterReporter
    /\ UNCHANGED <<job_type, native_keys, running, connector, stores, objects, job_reporting_task,
                   last_cursor, cursor, tick_prev, tick_flushed, busy_rejected, inst, feed, ingestion_stats>>

\* A _sync_done that awaits the cancelled task outside of any try.
sync_done_await_reporter_unswallowed ==
    /\ pc = "sd_await_reporter"
    /\ job_reporting_task \in ReporterEnded
    /\ Logged("job_reporting_task.await", None, "none")
    /\ IF job_reporting_task = "cancelled" THEN Raise("CancelledError") ELSE AfterReporter
    /\ UNCHANGED <<job_type, native_keys, running, connector, stores, objects, reporter, busy_rejected, inst, feed, ingestion_stats>>

\* Lines 350-353: await job_reporting_task returns once the task has ended.
sync_done_await_reporter ==
    /\ pc = "sd_await_reporter"
    /\ job_reporting_task \in ReporterEnded
    /\ Logged("job_reporting_task.await", None, "none")
    /\ AfterReporter
    /\ UNCHANGED <<job_type, native_keys, running, connector, stores, objects, reporter, busy_rejected, inst, feed, ingestion_stats>>

\* A _sync_done that cancels the sink and does not read its counters.
sync_done_cancel_counters_unread ==
    /\ pc = "sd_cancel"
    /\ sync_orchestrator' = "canceled"
    /\ Logged("sync_orchestrator.cancel", None, "none")
    /\ Goto("sd_reload_job")
    /\ UNCHANGED <<job_type, native_keys, running, connector, stores, data_provider, provider_cursor,
                   sink_error, reporter, busy_rejected, inst, feed, ingestion_stats>>

\* Lines 354-363: sync_orchestrator.cancel(), then the counters are read.
sync_done_cancel ==
    /\ pc = "sd_cancel"
    /\ sync_orchestrator' = "canceled"
    /\ calls' = calls \o <<Call("sync_orchestrator.cancel", None, "none"),
                          Call("ingestion_stats", None, "none")>>
    /\ ingestion_stats' = SinkStats(stream)
    /\ Goto("sd_reload_job")
    /\ UNCHANGED <<job_type, native_keys, running, connector, stores, data_provider, provider_cursor,
                   sink_error, reporter, busy_rejected, inst, feed>>

\* A _sync_done that does not look at what reload_sync_job() returns.
sync_done_reload_job_unchecked ==
    /\ pc = "sd_reload_job"
    /\ Goto("sd_reload_connector")
    /\ UNCHANGED <<job_type, native_keys, running, connector, stores, objects, reporter, busy_rejected, calls, inst, feed, ingestion_stats>>

\* Line 370: reload_sync_job().
sync_done_reload_job ==
    /\ pc = "sd_reload_job"
    /\ IF job_doc.exists THEN Goto("sd_reload_connector") ELSE Goto("sd_reload_connector2")
    /\ UNCHANGED <<job_type, native_keys, running, connector, stores, objects, reporter, busy_rejected, calls, inst, feed, ingestion_stats>>

\* Line 371: reload_connector() before the total document count.
sync_done_reload_connector ==
    /\ pc = "sd_reload_connector"
    /\ IF connector_doc.exists
       THEN /\ connector' = LoadConnector(connector_doc)
            /\ Goto("sd_document_count")
       ELSE /\ Goto("sd_terminal")
            /\ UNCHANGED connector
    /\ UNCHANGED <<job_type, native_keys, running, stores, objects, reporter,
                   busy_rejected, calls, inst, feed, ingestion_stats>>

\* Lines 372-374: connector.document_count().
sync_done_document_count ==
    /\ pc = "sd_document_count"
    /\ Logged("document_count", None, "none")
    /\ Goto("sd_terminal")
    /\ UNCHANGED <<job_type, native_keys, running, connector, stores, objects, reporter, busy_rejected, inst, feed, ingestion_stats>>

\* Lines 376-383: the terminal-status store call; it raises when the Job
\* document has been deleted since the reload.
sync_done_terminal ==
    /\ pc = "sd_terminal"
    /\ \/ /\ job_doc.exists
          /\ job_doc' = JobTerminal(job_doc, TerminalOp(sync_status), ingestion_stats)
          /\ Logged(TerminalOp(sync_status), None, sync_error)
          /\ Goto("sd_reload_connector2")
       \/ /\ ~job_doc.exists
          /\ Raise("Exception")
          /\ UNCHANGED <<job_doc, calls>>
    /\ UNCHANGED <<job_type, native_keys, running, connector, connector_doc, objects, reporter, busy_rejected, inst, feed, ingestion_stats>>

\* _sync_done returns to execute(), which runs its finally block.
Return ==
    /\ pc' = "finally"
    /\ level' = "finally"
    /\ UNCHANGED <<exc, sync_status, sync_error, cause>>

\* Line 385: reload_connector() before connector.sync_done.
sync_done_reload_connector2 ==
    /\ pc = "sd_reload_connector2"
    /\ IF connector_doc.exists
       THEN /\ connector' = LoadConnector(connector_doc)
            /\ Goto("sd_connector_sync_done")
       ELSE /\ Return
            /\ UNCHANGED connector
    /\ UNCHANGED <<job_type, native_keys, running, stores, objects, reporter,
                   busy_rejected, calls, inst, feed, ingestion_stats>>

\* A cursor taken from the provider whatever the job type.
FinalCursor_any_job == IF data_provider = "none" THEN None ELSE provider_cursor

\* Lines 386-394: the cursor handed to connector.sync_done.
FinalCursor ==
    IF data_provider = "none"
    THEN None
    ELSE IF is_content_sync(job_type) THEN provider_cursor ELSE None

\* Lines 395-398: the Job is reloaded and connector.sync_done(job or None,
\* cursor) is called; it raises when the Connector document has been deleted.
sync_done_connector_sync_done ==
    /\ pc = "sd_connector_sync_done"
    /\ LET status == IF job_doc.exists THEN job_doc.status ELSE "error"
           job == IF job_doc.exists THEN "job" ELSE "None"
       IN \/ /\ connector_doc.exists
             /\ connector_doc' = ConnectorSyncDone(connector_doc, job_type, status, FinalCursor)
             /\ Logged("connector.sync_done", FinalCursor, job)
             /\ Return
          \/ /\ ~connector_doc.exists
             /\ Raise("Exception")
             /\ UNCHANGED <<connector_doc, calls>>
    /\ UNCHANGED <<job_type, native_keys, running, connector, job_doc, objects, reporter, busy_rejected, inst, feed, ingestion_stats>>

(* ------------------------- the finally block --------------------------- *)

\* execute() is left, with exc propagating when it is not "none".
Leave ==
    /\ pc' = "ended"
    /\ UNCHANGED <<level, exc, sync_status, sync_error, cause>>

\* Lines 229-232: running is reset before the resources are closed.
finally ==
    /\ pc = "finally"
    /\ running' = FALSE
    /\ IF sync_orchestrator # "none"
       THEN Goto("close_sync_orchestrator")
       ELSE IF data_provider # "none" THEN Goto("close_data_provider") ELSE Leave
    /\ UNCHANGED <<job_type, native_keys, connector, stores, objects, reporter,
                   busy_rejected, calls, inst, feed, ingestion_stats>>

\* What a close() in the finally block can end with, besides returning: an
\* exception of its own, or the cancellation of the task running execute().
CloseRaises == {"Exception", "CancelledError"}

\* Lines 232-233: sync_orchestrator.close() is called; it returns or raises.
close_sync_orchestrator ==
    /\ pc = "close_sync_orchestrator"
    /\ Logged("sync_orchestrator.close", None, "none")
    /\ \/ IF data_provider # "none" THEN Goto("close_data_provider") ELSE Leave
       \/ \E e \in CloseRaises : Raise(e)
    /\ UNCHANGED <<job_type, native_keys, running, connector, stores, objects, reporter, busy_rejected, inst, feed, ingestion_stats>>

\* Lines 234-235: data_provider.close() is called; it returns or raises.
close_data_provider ==
    /\ pc = "close_data_provider"
    /\ Logged("data_provider.close", None, "none")
    /\ \/ Leave
       \/ \E e \in CloseRaises : Raise(e)
    /\ UNCHANGED <<job_type, native_keys, running, connector, stores, objects, reporter, busy_rejected, inst, feed, ingestion_stats>>

(* ----------------- the Progress Reporter task ------------------------- *)

\* Lines 532-540: the cursor a tick reports.
ReportedCursor ==
    IF data_provider = "none"
    THEN None
    ELSE IF is_content_sync(job_type) THEN provider_cursor ELSE None

\* The task ends (how: "finished", "failed" or "cancelled") and its locals
\* go with it.
ReporterEnds(how) ==
    /\ job_reporting_task' = how
    /\ last_cursor' = None
    /\ cursor' = None
    /\ tick_prev' = None
    /\ tick_flushed' = FALSE

\* A tick that never asks for a flush.
update_ingestion_stats_tick_unflushed ==
    /\ job_reporting_task = "sleep"
    /\ ~reporter_cancel
    /\ job_doc.exists
    /\ tick_prev' = last_cursor
    /\ tick_flushed' = FALSE
    /\ cursor' = ReportedCursor
    /\ last_cursor' = cursor'
    /\ job_reporting_task' = "update"
    /\ UNCHANGED <<job_type, native_keys, running, ctl, connector, stores, objects, reporter_cancel,
                   busy_rejected, calls, inst, feed, ingestion_stats>>

\* A tick that goes on whatever reload_sync_job() returns.
update_ingestion_stats_tick_unchecked ==
    /\ job_reporting_task = "sleep"
    /\ ~reporter_cancel
    /\ tick_prev' = last_cursor
    /\ tick_flushed' = FALSE
    /\ cursor' = ReportedCursor
    /\ IF cursor' # last_cursor
       THEN /\ last_cursor' = cursor'
            /\ job_reporting_task' = "flush"
       ELSE /\ job_reporting_task' = "update"
            /\ UNCHANGED last_cursor
    /\ UNCHANGED <<job_type, native_keys, running, ctl, connector, stores, objects, reporter_cancel,
                   busy_rejected, calls, inst, feed, ingestion_stats>>

\* Lines 527-546: the sleep ends and the Job is reloaded; a deleted Job ends
\* the task; a cursor other than last_cursor asks for a flush first.
update_ingestion_stats_tick ==
    /\ job_reporting_task = "sleep"
    /\ ~reporter_cancel
    /\ \/ /\ ~job_doc.exists
          /\ ReporterEnds("finished")
       \/ /\ job_doc.exists
          /\ tick_prev' = last_cursor
          /\ tick_flushed' = FALSE
          /\ cursor' = ReportedCursor
          /\ IF cursor' # last_cursor
             THEN /\ last_cursor' = cursor'
                  /\ job_reporting_task' = "flush"
             ELSE /\ job_reporting_task' = "update"
                  /\ UNCHANGED last_cursor
    /\ UNCHANGED <<job_type, native_keys, running, ctl, connector, stores, objects, reporter_cancel,
                   busy_rejected, calls, inst, feed, ingestion_stats>>

\* Line 551: sync_orchestrator.trigger_flush() returns.
update_ingestion_stats_flush ==
    /\ job_reporting_task = "flush"
    /\ ~reporter_cancel
    /\ tick_flushed' = TRUE
    /\ job_reporting_task' = "update"
    /\ UNCHANGED <<job_type, native_keys, running, ctl, connector, stores, objects, reporter_cancel,
                   last_cursor, cursor, tick_prev, busy_rejected, calls, inst, feed, ingestion_stats>>

\* Lines 556-564: the counters are read and update_metadata persists them
\* with the cursor; on a deleted Job the call raises and the task ends.
update_ingestion_stats_update ==
    /\ job_reporting_task = "update"
    /\ ~reporter_cancel
    /\ \/ /\ job_doc.exists
          /\ job_doc' = JobUpdateMetadata(job_doc, cursor)
          /\ job_reporting_task' = "sleep"
          /\ UNCHANGED <<last_cursor, cursor, tick_prev, tick_flushed>>
       \/ /\ ~job_doc.exists
          /\ ReporterEnds("failed")
          /\ UNCHANGED job_doc
    /\ UNCHANGED <<job_type, native_keys, running, ctl, connector, connector_doc, objects,
                   reporter_cancel, busy_rejected, calls, inst, feed, ingestion_stats>>

\* A reporting task whose exception is raised in execute() as well.
update_ingestion_stats_raises_in_runner ==
    /\ job_reporting_task \in {"flush", "update"}
    /\ ~reporter_cancel
    /\ ReporterEnds("failed")
    /\ Raise("Exception")
    /\ UNCHANGED <<job_type, native_keys, running, connector, stores, objects, reporter_cancel,
                   busy_rejected, calls, inst, feed, ingestion_stats>>


\* trigger_flush() or update_metadata() raises: the task ends with the exception.
update_ingestion_stats_raises ==
    /\ job_reporting_task \in {"flush", "update"}
    /\ ~reporter_cancel
    /\ ReporterEnds("failed")
    /\ UNCHANGED <<job_type, native_keys, running, ctl, connector, stores, objects, reporter_cancel,
                   busy_rejected, calls, inst, feed, ingestion_stats>>

\* The cancellation requested by _sync_done reaches the task at its await.
update_ingestion_stats_cancelled ==
    /\ ReporterPending
    /\ reporter_cancel
    /\ ReporterEnds("cancelled")
    /\ UNCHANGED <<job_type, native_keys, running, ctl, connector, stores, objects, reporter_cancel,
                   busy_rejected, calls, inst, feed, ingestion_stats>>

(* ------------------- generator() and prepare_docs() -------------------- *)

\* The stream is iterated by what was given it, until the sink has ended.
Feeding ==
    /\ consumer # "none"
    /\ sync_orchestrator \notin {"done", "canceled"}

\* Lines 494-522, up to the first document: generator() picks the provider
\* method; an incremental job of a provider without get_docs_incrementally
\* fails on the attribute.
generator_begin ==
    /\ Feeding
    /\ gen.state = "new"
    /\ LET skip == skip_unchanged_documents_enabled(job_type, provider_kind)
           method == GeneratorMethod(job_type, skip)
       IN  gen' = CASE method = "none" ->
                        [gen EXCEPT !.state = "raised", !.exc = "UnsupportedJobType"]
                    [] method = "get_docs_incrementally" /\ provider_kind = "missing" ->
                        [gen EXCEPT !.state = "raised", !.exc = "AttributeError"]
                    [] method = "get_docs_incrementally" ->
                        [gen EXCEPT !.state = "running", !.method = method,
                                    !.sync_cursor = connector.sync_cursor]
                    [] OTHER ->
                        [gen EXCEPT !.state = "running", !.method = method]
    /\ UNCHANGED <<job_type, native_keys, running, ctl, connector, stores, objects, reporter,
                   busy_rejected, calls, inst, provider_kind, source, pipeline, consumer,
                   stream, ingestion_stats>>

\* One document: generator() yields it (lines 499-520) and, for a content
\* job, the body of prepare_docs's loop runs on it (lines 462-491).
next_doc ==
    /\ Feeding
    /\ gen.state = "running"
    /\ gen.pos < Len(source)
    /\ LET item == GeneratorItem(gen.method, source[gen.pos + 1], gen.pos + 1)
       IN  stream' = IF consumer = "generator"
                     THEN Append(stream, item)
                     ELSE IF Dropped(item)
                          THEN stream
                          ELSE Append(stream, Prepared(item, pipeline))
    /\ gen' = [gen EXCEPT !.pos = gen.pos + 1]
    /\ UNCHANGED <<job_type, native_keys, running, ctl, connector, stores, objects, reporter,
                   busy_rejected, calls, inst, provider_kind, source, pipeline, consumer,
                   ingestion_stats>>

\* The provider has no more documents.
generator_exhausted ==
    /\ Feeding
    /\ gen.state = "running"
    /\ gen.pos = Len(source)
    /\ gen' = [gen EXCEPT !.state = "exhausted"]
    /\ UNCHANGED <<job_type, native_keys, running, ctl, connector, stores, objects, reporter,
                   busy_rejected, calls, inst, provider_kind, source, pipeline, consumer,
                   stream, ingestion_stats>>

(* --------------------------- the environment --------------------------- *)

\* The sink's extractor and sink tasks finish, with or without an error.
sink_finishes ==
    /\ sync_orchestrator = "running"
    /\ sync_orchestrator' = "done"
    /\ \E e \in {"none", "SinkError"} : sink_error' = e
    /\ UNCHANGED <<job_type, native_keys, running, ctl, connector, stores, data_provider,
                   provider_cursor, reporter, busy_rejected, calls, inst, feed, ingestion_stats>>

\* The Source Provider moves its cursor while documents are fetched.
provider_advances ==
    /\ data_provider = "created"
    /\ sync_orchestrator = "running"
    /\ provider_cursor < MaxCursor
    /\ provider_cursor' = provider_cursor + 1
    /\ UNCHANGED <<job_type, native_keys, running, ctl, connector, stores, data_provider,
                   sync_orchestrator, sink_error, reporter, busy_rejected,
                   calls, inst, feed, ingestion_stats>>

\* The await points at which execute() or _sync_done read or write the Job
\* document, and those at which they read or write the Connector document.
JobAccessPoints == {"claim", "check_job", "sd_reload_job", "sd_terminal",
                    "sd_connector_sync_done"}

ConnectorAccessPoints == {"ss_reload", "ss_call", "check_connector", "sd_reload_connector",
                          "sd_reload_connector2", "sd_connector_sync_done"}

\* Someone else sets the status of the running Job: a cancel request, or any
\* status other than InProgress, at any time of the Reporting loop: before a
\* poll, or during the sleep that follows one.
job_status_changed ==
    /\ pc \in {"check_job", "sleep"}
    /\ job_doc.exists
    /\ job_doc.status = "in_progress"
    /\ \E s \in {"canceling", "error"} : job_doc' = [job_doc EXCEPT !.status = s]
    /\ UNCHANGED <<job_type, native_keys, running, ctl, connector, connector_doc, objects, reporter,
                   busy_rejected, calls, inst, feed, ingestion_stats>>

\* The Job document is deleted.  A deletion shows only in the next access to
\* the document, so it is taken right before one: by execute(), by
\* _sync_done or by the reporting task.
job_deleted ==
    /\ \/ pc \in JobAccessPoints
       \/ job_reporting_task \in {"sleep", "update"} /\ ~reporter_cancel
    /\ job_doc.exists
    /\ job_doc' = [job_doc EXCEPT !.exists = FALSE]
    /\ UNCHANGED <<job_type, native_keys, running, ctl, connector, connector_doc, objects, reporter,
                   busy_rejected, calls, inst, feed, ingestion_stats>>

\* The Connector document is deleted, right before an access to it.
connector_deleted ==
    /\ pc \in ConnectorAccessPoints
    /\ connector_doc.exists
    /\ connector_doc' = [connector_doc EXCEPT !.exists = FALSE]
    /\ UNCHANGED <<job_type, native_keys, running, ctl, connector, job_doc, objects, reporter,
                   busy_rejected, calls, inst, feed, ingestion_stats>>

\* Another connector instance starts a job of the same family on the
\* Connector while this Runner is in sync_starts.
peer_sync_starts ==
    /\ pc \in {"ss_reload", "ss_call"}
    /\ connector_doc.exists
    /\ ~StartRejected(job_type, LoadConnector(connector_doc))
    /\ connector_doc' = ConnectorSyncStarts(connector_doc, job_type)
    /\ UNCHANGED <<job_type, native_keys, running, ctl, connector, job_doc, objects, reporter,
                   busy_rejected, calls, inst, feed, ingestion_stats>>

(* ------------------------------- faults -------------------------------- *)

\* The exceptions the collaborator awaited at p can raise.
RaisedAt(p) ==
    CASE p \in {"prepare_content_index", "async_bulk", "has_active_license_enabled"} ->
            {"Exception", "ElasticAuthorizationException"}
      [] p \in {"ss_reload", "ss_call", "claim", "changed", "validate", "ping",
                "validate_filtering", "check_connector", "check_job", "sd_cancel",
                "sd_reload_job", "sd_reload_connector", "sd_document_count",
                "sd_terminal", "sd_reload_connector2", "sd_connector_sync_done"} ->
            {"Exception"}
      [] OTHER -> {}

\* The await points of execute(): where a cancellation of its task arrives.
CancelPoints ==
    {"ss_reload", "ss_call", "claim", "changed", "validate", "ping",
     "validate_filtering", "prepare_content_index", "has_active_license_enabled",
     "async_bulk", "check_connector", "check_job", "sleep", "sd_await_reporter",
     "sd_cancel", "sd_reload_job", "sd_reload_connector", "sd_document_count",
     "sd_terminal", "sd_reload_connector2", "sd_connector_sync_done"}

\* A sync_starts with no except clause around connector.sync_starts.
await_raises_unconverted ==
    /\ \E e \in RaisedAt(pc) : Raise(e)
    /\ UNCHANGED <<job_type, native_keys, running, connector, stores, objects, reporter,
                   busy_rejected, calls, inst, feed, ingestion_stats>>

\* The awaited call raises.  Lines 454-459: what connector.sync_starts raises
\* becomes SyncJobStartError.
await_raises ==
    /\ \E e \in RaisedAt(pc) :
          Raise(IF pc = "ss_call" THEN "SyncJobStartError" ELSE e)
    /\ UNCHANGED <<job_type, native_keys, running, connector, stores, objects, reporter,
                   busy_rejected, calls, inst, feed, ingestion_stats>>

\* The task running execute() is cancelled.  While _sync_done awaits the
\* reporting task, lines 350-353 catch the CancelledError and go on.
runtime_cancel ==
    /\ pc \in CancelPoints
    /\ IF pc = "sd_await_reporter"
       THEN UNCHANGED ctl
       ELSE Raise("CancelledError")
    /\ UNCHANGED <<job_type, native_keys, running, connector, stores, objects, reporter,
                   busy_rejected, calls, inst, feed, ingestion_stats>>

(* ---------------------------- specification ---------------------------- *)

Next ==
    \/ execute_enter
    \/ execute_busy
    \/ sync_starts_reload
    \/ sync_starts_call
    \/ claim
    \/ changed
    \/ validate
    \/ ping
    \/ update_native_connector_authentication
    \/ dispatch
    \/ validate_filtering
    \/ prepare_content_index
    \/ has_active_license_enabled
    \/ async_bulk
    \/ check_connector
    \/ check_job
    \/ sleep
    \/ sync_done_begin
    \/ sync_done_await_reporter
    \/ sync_done_cancel
    \/ sync_done_reload_job
    \/ sync_done_reload_connector
    \/ sync_done_document_count
    \/ sync_done_terminal
    \/ sync_done_reload_connector2
    \/ sync_done_connector_sync_done
    \/ finally
    \/ close_sync_orchestrator
    \/ close_data_provider
    \/ update_ingestion_stats_tick
    \/ update_ingestion_stats_flush
    \/ update_ingestion_stats_update
    \/ update_ingestion_stats_raises
    \/ update_ingestion_stats_cancelled
    \/ sink_finishes
    \/ provider_advances
    \/ job_status_changed
    \/ job_deleted
    \/ connector_deleted
    \/ peer_sync_starts
    \/ await_raises
    \/ runtime_cancel

Spec == Init /\ [][Next]_vars

(* --------------- the document stream of every kind of job -------------- *)

\* generator() alone or under prepare_docs(), for every job type, provider
\* and pipeline.
InitDocs ==
    /\ native_keys = NotNative
    /\ InitRunner
    /\ job_type \in AllJobTypes
    /\ provider_kind \in ProviderKinds
    /\ source \in Sources
    /\ pipeline \in PipelineSettings
    /\ consumer \in {"prepare_docs", "generator"}
    /\ \E c \in 1..MaxCursor :
          connector_doc = [exists |-> TRUE, last_sync_status |-> "none",
                           last_access_control_sync_status |-> "none",
                           sync_cursor |-> c, seq_no |-> 0]
    /\ connector = LoadConnector(connector_doc)
    /\ inst = [i \in Instances |-> IdleInstance("full")]

NextDocs ==
    \/ generator_begin
    \/ next_doc
    \/ generator_exhausted

SpecDocs == InitDocs /\ [][NextDocs]_vars

(* ------------- a run that is left alone, with its documents ------------- *)

\* The sink has taken every document of the stream and its tasks end.
sink_drains ==
    /\ sync_orchestrator = "running"
    /\ gen.state = "exhausted"
    /\ sync_orchestrator' = "done"
    /\ sink_error' = "none"
    /\ UNCHANGED <<job_type, native_keys, running, ctl, connector, stores, data_provider,
                   provider_cursor, reporter, busy_rejected, calls, inst, feed, ingestion_stats>>

\* A Job of each type, a provider with documents; nothing outside the run
\* touches the store, fails or cancels.
InitSync ==
    /\ native_keys \in NativeOrNot
    /\ InitRunner
    /\ job_type \in JobTypes
    /\ connector = IdleConnector
    /\ provider_kind \in {"default", "overrides"}
    /\ source \in HashableSources
    /\ pipeline \in PipelineSettings
    /\ consumer = "none"
    /\ connector_doc = [exists |-> TRUE, last_sync_status |-> "none",
                        last_access_control_sync_status |-> "none",
                        sync_cursor |-> 1, seq_no |-> 0]
    /\ inst = [i \in Instances |-> IdleInstance("full")]

NextSync ==
    \/ execute_enter
    \/ sync_starts_reload
    \/ sync_starts_call
    \/ claim
    \/ changed
    \/ validate
    \/ ping
    \/ update_native_connector_authentication
    \/ dispatch
    \/ validate_filtering
    \/ prepare_content_index
    \/ has_active_license_enabled
    \/ async_bulk
    \/ check_connector
    \/ check_job
    \/ sleep
    \/ sync_done_begin
    \/ sync_done_await_reporter
    \/ sync_done_cancel
    \/ sync_done_reload_job
    \/ sync_done_reload_connector
    \/ sync_done_document_count
    \/ sync_done_terminal
    \/ sync_done_reload_connector2
    \/ sync_done_connector_sync_done
    \/ finally
    \/ close_sync_orchestrator
    \/ close_data_provider
    \/ update_ingestion_stats_tick
    \/ update_ingestion_stats_flush
    \/ update_ingestion_stats_update
    \/ update_ingestion_stats_cancelled
    \/ generator_begin
    \/ next_doc
    \/ generator_exhausted
    \/ sink_drains

SpecSync == InitSync /\ [][NextSync]_vars

(* ------------- a run whose records change, with no call failing ------- *)

\* A Job of any type on a Connector whose families may already be
\* InProgress.  The records are deleted and changed by others while the run
\* goes on; the store calls do not fail otherwise and the task is not cancelled.
InitStore ==
    /\ native_keys \in NativeKeys
    /\ InitRunner
    /\ NoFeed
    /\ job_type \in AllJobTypes
    /\ \E content, access \in {"none", "in_progress"} :
          connector_doc = [exists |-> TRUE, last_sync_status |-> content,
                           last_access_control_sync_status |-> access,
                           sync_cursor |-> 1, seq_no |-> 0]
    /\ inst = [i \in Instances |-> IdleInstance("full")]

NextStore ==
    \/ execute_enter
    \/ sync_starts_reload
    \/ sync_starts_call
    \/ claim
    \/ changed
    \/ validate
    \/ ping
    \/ update_native_connector_authentication
    \/ dispatch
    \/ validate_filtering
    \/ prepare_content_index
    \/ has_active_license_enabled
    \/ async_bulk
    \/ check_connector
    \/ check_job
    \/ sleep
    \/ sync_done_begin
    \/ sync_done_await_reporter
    \/ sync_done_cancel
    \/ sync_done_reload_job
    \/ sync_done_reload_connector
    \/ sync_done_document_count
    \/ sync_done_terminal
    \/ sync_done_reload_connector2
    \/ sync_done_connector_sync_done
    \/ finally
    \/ close_sync_orchestrator
    \/ close_data_provider
    \/ update_ingestion_stats_tick
    \/ update_ingestion_stats_flush
    \/ update_ingestion_stats_update
    \/ update_ingestion_stats_cancelled
    \/ sink_finishes
    \/ job_status_changed
    \/ job_deleted
    \/ connector_deleted
    \/ peer_sync_starts

SpecStore == InitStore /\ [][NextStore]_vars

(* ------------- the same run, with every task scheduled ---------------- *)

\* A step of the task that runs execute(): the coroutine is resumed each
\* time the call it awaits returns or raises.
ExecuteStep ==
    \/ execute_enter
    \/ sync_starts_reload
    \/ sync_starts_call
    \/ claim
    \/ changed
    \/ validate
    \/ ping
    \/ update_native_connector_authentication
    \/ dispatch
    \/ validate_filtering
    \/ prepare_content_index
    \/ has_active_license_enabled
    \/ async_bulk
    \/ check_connector
    \/ check_job
    \/ sleep
    \/ sync_done_begin
    \/ sync_done_await_reporter
    \/ sync_done_cancel
    \/ sync_done_reload_job
    \/ sync_done_reload_connector
    \/ sync_done_document_count
    \/ sync_done_terminal
    \/ sync_done_reload_connector2
    \/ sync_done_connector_sync_done
    \/ finally
    \/ close_sync_orchestrator
    \/ close_data_provider

\* A step of the task created at lines 204-206.
ReporterStep ==
    \/ update_ingestion_stats_tick
    \/ update_ingestion_stats_flush
    \/ update_ingestion_stats_update
    \/ update_ingestion_stats_cancelled

\* The event loop runs both tasks: a call that is awaited returns or raises,
\* and the task that awaits it goes on.  Nothing is assumed of the sink, nor
\* of those who change or delete the records.
SpecLive == InitStore /\ [][NextStore]_vars /\ WF_vars(ExecuteStep) /\ WF_vars(ReporterStep)


(* --------------- sync_starts of several Runner instances --------------- *)

\* Runner instances, each with a pending job of its own, on one Connector.
InitStart ==
    /\ native_keys = NotNative
    /\ InitRunner
    /\ NoFeed
    /\ job_type = "full"
    /\ connector_doc = [exists |-> TRUE, last_sync_status |-> "none",
                        last_access_control_sync_status |-> "none",
                        sync_cursor |-> 1, seq_no |-> 0]
    /\ inst \in [Instances -> {IdleInstance(jt) : jt \in AllJobTypes}]

\* Instance i leaves execute() with exception e, before its try block.
InstRaise(i, e) == inst' = [inst EXCEPT ![i].pc = "ended", ![i].exc = e]

\* Lines 122-133 for instance i.
inst_execute(i) ==
    /\ inst[i].pc = "idle"
    /\ ~inst[i].running
    /\ inst' = [inst EXCEPT ![i].running = TRUE, ![i].pc = "ss_reload"]
    /\ UNCHANGED <<job_type, native_keys, running, ctl, connector, stores, objects, reporter,
                   busy_rejected, calls, feed, ingestion_stats>>

\* Lines 429-452 for instance i.
inst_sync_starts_reload(i) ==
    /\ inst[i].pc = "ss_reload"
    /\ \/ /\ ~connector_doc.exists
          /\ InstRaise(i, "SyncJobStartError")
       \/ /\ connector_doc.exists
          /\ IF StartRejected(inst[i].job_type, LoadConnector(connector_doc))
             THEN inst' = [inst EXCEPT ![i].pc = "ended", ![i].exc = "SyncJobStartError",
                                       ![i].connector = LoadConnector(connector_doc)]
             ELSE inst' = [inst EXCEPT ![i].pc = "ss_call",
                                       ![i].connector = LoadConnector(connector_doc)]
    /\ UNCHANGED <<job_type, native_keys, running, ctl, connector, stores, objects, reporter,
                   busy_rejected, calls, feed, ingestion_stats>>

\* Lines 454-459 for instance i: a conflict propagates, any other failure of
\* connector.sync_starts becomes SyncJobStartError, success reaches claim().
inst_sync_starts_call(i) ==
    /\ inst[i].pc = "ss_call"
    /\ \/ /\ connector_doc.exists
          /\ Conflicts(connector_doc, inst[i].connector)
          /\ InstRaise(i, "ConflictError")
          /\ UNCHANGED connector_doc
       \/ /\ InstRaise(i, "SyncJobStartError")
          /\ UNCHANGED connector_doc
       \/ /\ connector_doc.exists
          /\ ~Conflicts(connector_doc, inst[i].connector)
          /\ connector_doc' = ConnectorSyncStarts(connector_doc, inst[i].job_type)
          /\ inst' = [inst EXCEPT ![i].pc = "claim"]
    /\ UNCHANGED <<job_type, native_keys, running, ctl, connector, job_doc, objects, reporter,
                   busy_rejected, calls, feed, ingestion_stats>>

\* The Connector document is deleted while an instance is in sync_starts.
inst_connector_deleted ==
    /\ \E i \in Instances : inst[i].pc \in {"ss_reload", "ss_call"}
    /\ connector_doc.exists
    /\ connector_doc' = [connector_doc EXCEPT !.exists = FALSE]
    /\ UNCHANGED <<job_type, native_keys, running, ctl, connector, job_doc, objects, reporter,
                   busy_rejected, calls, inst, feed, ingestion_stats>>

NextStart ==
    \/ \E i \in Instances : inst_execute(i)
    \/ \E i \in Instances : inst_sync_starts_reload(i)
    \/ \E i \in Instances : inst_sync_starts_call(i)
    \/ inst_connector_deleted

SpecStart == InitStart /\ [][NextStart]_vars

(* ------------------------- reading the call log ------------------------ *)

CallIndexes == 1..Len(calls)

Called(op) == \E i \in CallIndexes : calls[i].op = op

IsTerminalCall(c) == c.op \in TerminalOps

\* The terminal-status store calls of the run, in order.
TerminalCalls == SelectSeq(calls, IsTerminalCall)

TerminalOpsCalled == {calls[i].op : i \in {j \in CallIndexes : calls[j].op \in TerminalOps}}

\* execute() has ended, by returning or by raising.
Ended == pc = "ended"

\* The run got past sync_starts: execute() entered its try block.
PastStart == level # "start"

\* execute() returned with no exception and the Job document is still there:
\* the last _sync_done ran to its end and could reload the Job.
CleanEnd == Ended /\ PastStart /\ exc = "none" /\ job_doc.exists

\* The update_metadata step of the reporting task.
ReporterPersists == job_reporting_task = "update" /\ job_reporting_task' = "sleep"

(* ------------------------------- claims -------------------------------- *)

\* C1: a run that got past sync_starts and whose Job can still be reloaded
\* at finalization makes exactly one terminal-status store call (fail,
\* suspend, cancel or done), also when an exception or a cancellation arrives
\* while _sync_done is in progress.  Stated for the runs in which execute()
\* returns without raising, where the last _sync_done ran to its end.
C1_ExactlyOneTerminalCall == CleanEnd => Len(TerminalCalls) = 1

\* C2: of two Runner instances started for jobs of one family on the same
\* Connector, at most one gets past sync_starts and reaches claim(), under
\* every interleaving of their reloads and connector.sync_starts calls; an
\* instance that did not get past ended with SyncJobStartError or with the
\* store's conflict error.
C2_AtMostOneStarts ==
    \A i, j \in Instances :
        (i # j /\ Family(inst[i].job_type) = Family(inst[j].job_type)) =>
            /\ ~(inst[i].pc = "claim" /\ inst[j].pc = "claim")
            /\ inst[j].pc = "ended" => inst[j].exc \in {"SyncJobStartError", "ConflictError"}

\* Two instances raced through their reloads: one started, the other met the conflict.
C2_Raced ==
    \E i, j \in Instances :
        /\ i # j
        /\ Family(inst[i].job_type) = Family(inst[j].job_type)
        /\ inst[i].pc = "claim"
        /\ inst[j].pc = "ended"
        /\ inst[j].exc = "ConflictError"

\* C3: on a tick whose provider cursor differs from the one of the tick
\* before (None before the first), update_metadata persists that cursor only
\* after trigger_flush() has returned in the same tick; a flush that is
\* cancelled or raises ends the task, and an ended task persists nothing.
C3_FlushBeforeCursorPersisted ==
    [][ /\ (ReporterPersists /\ cursor # tick_prev) =>
                (tick_flushed /\ job_doc'.sync_cursor = cursor)
        /\ (job_reporting_task = "flush" /\ job_reporting_task' # "flush" /\ ~tick_flushed') =>
                (job_reporting_task' \in {"failed", "cancelled"}
                 /\ job_doc'.sync_cursor = job_doc.sync_cursor)
        /\ (job_reporting_task \in ReporterEnded) =>
                (job_reporting_task' = job_reporting_task
                 /\ job_doc'.sync_cursor = job_doc.sync_cursor) ]_vars

\* A second cursor change has been flushed and then persisted.
C3_ChangedCursorPersisted ==
    /\ job_reporting_task = "sleep"
    /\ tick_flushed
    /\ tick_prev # None
    /\ cursor # tick_prev
    /\ job_doc.exists
    /\ job_doc.sync_cursor = cursor

\* C4 as stated: every run that marked itself running ends having called
\* _sync_done and released its resources, a start failure included.
C4_EveryRunFinalizes == Ended => (sync_status # "none" /\ ~running)

\* C4: every run that got past sync_starts ends having called _sync_done and
\* run the finally block; when execute() returns without raising, a Job that
\* still exists got its terminal-status call, the counters of a created sink
\* were read and both resources were closed.  A run that failed in
\* sync_starts ends with no store call made and the running flag still set.
C4_RunsPastStartFinalize ==
    /\ (Ended /\ PastStart) => (sync_status # "none" /\ ~running /\ level = "finally")
    /\ (Ended /\ PastStart /\ exc = "none") =>
            /\ job_doc.exists => TerminalCalls # << >>
            /\ sync_orchestrator # "none" =>
                    (Called("ingestion_stats") /\ Called("sync_orchestrator.close"))
            /\ data_provider # "none" => Called("data_provider.close")
    /\ (Ended /\ ~PastStart) =>
            (running /\ sync_status = "none" /\ calls = << >> /\ exc # "none")

\* A run cancelled by the runtime while reporting has been finalized and cleaned up.
C4_CancelledRunFinalized ==
    /\ Ended
    /\ exc = "none"
    /\ cause = [exc |-> "CancelledError", at |-> "reporting"]
    /\ Called("suspend")
    /\ Called("sync_orchestrator.close")
    /\ Called("data_provider.close")
    /\ ~running

\* C5: execute() on a Runner that is running raises SyncJobRunningError and
\* changes nothing: no store, source or sink call is made, running stays
\* true, and the sink, the provider and the reporting task are as they were.
C5_BusyLeavesRunUntouched ==
    [][ (~busy_rejected /\ busy_rejected') =>
            /\ running /\ running'
            /\ UNCHANGED <<ctl, connector, stores, objects, reporter, calls>> ]_vars

\* execute() was rejected while the sink and the reporting task were at work.
C5_RejectedWhileReporting ==
    /\ busy_rejected
    /\ running
    /\ sync_orchestrator = "running"
    /\ job_reporting_task = "flush"

\* The position of the last call of op in the log, 0 when there is none.
LastIndex(op) ==
    IF Called(op)
    THEN CHOOSE i \in CallIndexes :
            calls[i].op = op /\ \A j \in CallIndexes : calls[j].op = op => j <= i
    ELSE 0

LastTerminalIndex ==
    IF TerminalCalls = << >>
    THEN 0
    ELSE CHOOSE i \in CallIndexes :
            calls[i].op \in TerminalOps
            /\ \A j \in CallIndexes : calls[j].op \in TerminalOps => j <= i

\* _sync_done is about to make its terminal-status call, in a run with a sink.
AtTerminalCall == pc = "sd_terminal" /\ sync_orchestrator # "none"

\* sync_orchestrator.cancel() has been requested in this _sync_done, after the
\* terminal call and the connector.sync_done of an earlier one, and the
\* counters were read right after it.
SinkCancelledFirst ==
    /\ sync_orchestrator = "canceled"
    /\ LastIndex("sync_orchestrator.cancel") > LastTerminalIndex
    /\ LastIndex("sync_orchestrator.cancel") > LastIndex("connector.sync_done")
    /\ LastIndex("sync_orchestrator.cancel") > LastIndex("job_reporting_task.await")
    /\ LastIndex("ingestion_stats") = LastIndex("sync_orchestrator.cancel") + 1

\* Every connector.sync_done of a run with a sink follows a sink cancel, and
\* when the Job could be reloaded for it the terminal call lies in between.
ConnectorDoneLast ==
    \A d \in CallIndexes :
        (calls[d].op = "connector.sync_done" /\ sync_orchestrator # "none") =>
            \E c \in 1..(d - 1) :
                /\ calls[c].op = "sync_orchestrator.cancel"
                /\ calls[d].info = "job" =>
                        \E t \in (c + 1)..(d - 1) : calls[t].op \in TerminalOps

\* C6 as stated: with a reporting task launched and a sink created, the
\* terminal-status call is made only after the task has been cancelled and
\* awaited and after sync_orchestrator.cancel().
C6_TerminalAfterReporterCancelled ==
    (AtTerminalCall /\ job_reporting_task # "none") =>
        /\ 0 < LastIndex("job_reporting_task.cancel")
        /\ LastIndex("job_reporting_task.cancel") < LastIndex("job_reporting_task.await")
        /\ SinkCancelledFirst

\* C6: in a run with a sink the terminal-status call is made only when the
\* reporting task is not pending (one that was pending has been cancelled and
\* then awaited; one that never started or ended by itself is left alone) and
\* after sync_orchestrator.cancel(); the counters are read right after that
\* cancel, and connector.sync_done comes after the terminal call.
C6_TerminalAfterReporterStopped ==
    /\ AtTerminalCall =>
            /\ job_reporting_task \in {"none"} \cup ReporterEnded
            /\ job_reporting_task = "cancelled" =>
                    /\ 0 < LastIndex("job_reporting_task.cancel")
                    /\ LastIndex("job_reporting_task.cancel")
                            < LastIndex("job_reporting_task.await")
            /\ SinkCancelledFirst
    /\ ConnectorDoneLast

\* Finalization of a run whose reporting task was cancelled went through to
\* connector.sync_done.
C6_FinalizedWithSink ==
    /\ sync_orchestrator = "canceled"
    /\ job_reporting_task = "cancelled"
    /\ Len(TerminalCalls) = 1
    /\ LastTerminalIndex < LastIndex("connector.sync_done")
    /\ calls[LastIndex("connector.sync_done")].info = "job"

\* C7: for an AccessControl job every cursor handed to the store is None:
\* the one of claim(), the one the reporting task gives update_metadata and
\* the one of connector.sync_done.  For a Full or Incremental job with a
\* provider, connector.sync_done is given the provider's cursor.
C7_AccessControlCursorsNull ==
    /\ job_type = "access_control" =>
            /\ \A i \in CallIndexes :
                    calls[i].op \in {"claim", "connector.sync_done"} => calls[i].cursor = None
            /\ job_reporting_task \in {"flush", "update"} => cursor = None
    /\ (is_content_sync(job_type) /\ calls # << >>
            /\ calls[Len(calls)].op = "connector.sync_done") =>
            calls[Len(calls)].cursor
                = (IF data_provider = "none" THEN None ELSE provider_cursor)

\* An AccessControl run whose provider had a cursor went through connector.sync_done.
C7_AccessControlFinalized ==
    /\ job_type = "access_control"
    /\ provider_cursor # None
    /\ Called("connector.sync_done")
    /\ job_reporting_task = "cancelled"

\* changed() has returned false in this run.
ChangedFalse == \E i \in CallIndexes : calls[i].op = "changed" /\ calls[i].info = "false"

\* C8: once changed() has returned false the run never calls
\* validate_config_fields, validate_config or ping, never creates or starts
\* the sink and never launches the reporting task; unless its finalization is
\* itself interrupted, the only terminal-status call is done(), and a run that
\* returns with the Job still there has called done() once.
C8_UnchangedCompletes ==
    ChangedFalse =>
        /\ ~Called("validate_config_fields")
        /\ ~Called("validate_config")
        /\ ~Called("ping")
        /\ ~Called("async_bulk")
        /\ ~Called("create_task")
        /\ sync_orchestrator = "none"
        /\ job_reporting_task = "none"
        /\ cause.exc = "none" => TerminalOpsCalled \subseteq {"done"}
        /\ (CleanEnd /\ cause.exc = "none") =>
                (Len(TerminalCalls) = 1 /\ TerminalOpsCalled = {"done"})

\* A run whose provider reported no change has ended as Completed.
C8_UnchangedRunEnded ==
    /\ ChangedFalse
    /\ CleanEnd
    /\ cause.exc = "none"
    /\ TerminalOpsCalled = {"done"}
    /\ job_doc.status = "completed"

\* C9: a run cancelled by the runtime during Reporting never calls fail(),
\* cancel() or done(); when execute() returns with the Job still there,
\* suspend() was called, exactly once.
C9_CancelledSuspends ==
    cause = [exc |-> "CancelledError", at |-> "reporting"] =>
        /\ TerminalOpsCalled \subseteq {"suspend"}
        /\ CleanEnd => (Len(TerminalCalls) = 1 /\ TerminalOpsCalled = {"suspend"})

\* A run cancelled during Reporting has ended with the Job Suspended.
C9_SuspendedRunEnded ==
    /\ cause = [exc |-> "CancelledError", at |-> "reporting"]
    /\ CleanEnd
    /\ TerminalOpsCalled = {"suspend"}
    /\ job_doc.status = "suspended"

\* C10: a run whose poll saw the Job in status Canceling never calls fail(),
\* suspend() or done(); when execute() returns with the Job still there,
\* cancel() was called, exactly once.
C10_CancelingCancels ==
    cause.exc = "ConnectorJobCanceledError" =>
        /\ cause.at = "reporting"
        /\ TerminalOpsCalled \subseteq {"cancel"}
        /\ CleanEnd => (Len(TerminalCalls) = 1 /\ TerminalOpsCalled = {"cancel"})

\* A run whose poll saw Canceling has ended with the Job Canceled.
C10_CanceledRunEnded ==
    /\ cause.exc = "ConnectorJobCanceledError"
    /\ CleanEnd
    /\ TerminalOpsCalled = {"cancel"}
    /\ job_doc.status = "canceled"

\* The Job is in status Canceling.
JobCanceling == job_doc.exists /\ job_doc.status = "canceling"

\* C11 as stated: once the Job is set to Canceling during Reporting, the run
\* leaves the Reporting loop only through the explicit-cancel signal of the
\* next poll (or through an exception or a cancellation): it never goes on to
\* finalize by the sink's outcome.
C11_CancelingAlwaysDetected ==
    (JobCanceling /\ Phase(pc) = "finalizing") => cause.exc # "none"

\* C11: a poll that finds the Job in status Canceling never passes over it:
\* check_job raises ConnectorJobCanceledError there (unless the reload fails
\* or the runtime cancels the run at that await), the except clause calls
\* _sync_done(CANCELED), and the explicit-cancel signal is raised for no other
\* reason.  A sink that is done when the sleep ends makes the loop end
\* without a further poll.
C11_PollDetectsCanceling ==
    [][ /\ (pc = "check_job" /\ JobCanceling /\ pc' # pc) =>
                /\ pc' = "sd_begin"
                /\ cause'.at = "reporting"
                /\ cause'.exc \in {"ConnectorJobCanceledError", "CancelledError", "Exception"}
                /\ cause'.exc = "ConnectorJobCanceledError" => sync_status' = "canceled"
        /\ (cause.exc # "ConnectorJobCanceledError" /\ cause'.exc = "ConnectorJobCanceledError") =>
                (pc = "check_job" /\ JobCanceling)
        /\ (pc = "sleep" /\ pc' = "check_connector") => ~SinkDone ]_vars

\* The poll after a sleep during which the Job was set to Canceling has raised the signal.
C11_CancelingDetected ==
    /\ pc = "sd_begin"
    /\ cause = [exc |-> "ConnectorJobCanceledError", at |-> "reporting"]
    /\ sync_status = "canceled"
    /\ JobCanceling
    /\ job_reporting_task = "update"

\* The try body was left by an exception that is neither the runtime's
\* cancellation nor the explicit-cancel signal.
FailedRun == cause.exc \notin {"none", "CancelledError", "ConnectorJobCanceledError"}

\* What fail() is to get for the exception that ended the try body.
FailPayload ==
    IF cause.exc = "ElasticAuthorizationException" THEN "NotAuthorizedMessage" ELSE cause.exc

\* C12: an exception in the try body other than the runtime's cancellation
\* and the explicit-cancel signal makes the except clause call
\* _sync_done(ERROR) with the exception itself as sync_error, or with the
\* composed not-authorized message for ElasticAuthorizationException;
\* suspend() and cancel() are never called, and when execute() returns with
\* the Job still there the last terminal-status call is fail() with that payload.
C12_ExceptionFails ==
    FailedRun =>
        /\ sync_status = "error"
        /\ sync_error = FailPayload
        /\ TerminalOpsCalled \subseteq {"fail", "done"}
        /\ CleanEnd => calls[LastTerminalIndex] = Call("fail", None, FailPayload)

\* A run whose sink was refused by the destination store ended with fail() and the message.
C12_NotAuthorizedFailed ==
    /\ cause.exc = "ElasticAuthorizationException"
    /\ CleanEnd
    /\ TerminalCalls = << Call("fail", None, "NotAuthorizedMessage") >>

\* C16: whenever execute() leaves its run section, by any path, close() has
\* been called on the sink and on the provider, each if it was created.
C16_ResourcesClosed ==
    (Ended /\ PastStart) =>
        /\ sync_orchestrator # "none" => Called("sync_orchestrator.close")
        /\ data_provider # "none" => Called("data_provider.close")

\* C17 as stated: a run for a job type outside Full, Incremental and
\* AccessControl fails with UnsupportedJobType and the Job is marked Error.
C17_UnknownTypeFails ==
    (Ended /\ job_type \notin JobTypes) =>
        (cause.exc = "UnsupportedJobType" /\ sync_status = "error")

\* C17: UnsupportedJobType is raised only for an Incremental job, before the
\* sink is started, and the except clause then calls _sync_done(ERROR) with
\* it: fail() is the only terminal-status call.  A job type outside Full,
\* Incremental and AccessControl never gets past sync_starts: execute() ends
\* with SyncJobStartError (or with what the Connector reload raised, or the
\* runtime's cancellation) before its try block, with no store call made and
\* the Job left Pending.
C17_UnsupportedIncrementalFails ==
    /\ cause.exc = "UnsupportedJobType" =>
            /\ job_type = "incremental"
            /\ cause.at = "setup"
            /\ sync_status = "error"
            /\ sync_error = "UnsupportedJobType"
            /\ ~Called("async_bulk")
            /\ TerminalOpsCalled \subseteq {"fail"}
            /\ CleanEnd => TerminalCalls = << Call("fail", None, "UnsupportedJobType") >>
    /\ job_type \notin JobTypes =>
            /\ ~PastStart
            /\ cause.exc = "none"
            /\ calls = << >>
            /\ job_doc.status = "pending"
            /\ Ended => exc \in {"SyncJobStartError", "CancelledError", "Exception"}

\* An Incremental run on a Connector without incremental sync ended with fail().
C17_UnsupportedRunFailed ==
    /\ cause.exc = "UnsupportedJobType"
    /\ CleanEnd
    /\ Called("fail")
    /\ job_doc.status = "error"

\* C18: InsufficientESLicenseError is raised only in an AccessControl run and
\* before async_bulk is called: the sink is never started, so no document is
\* fetched, and no reporting task is launched; the except clause calls
\* _sync_done(ERROR) with it, and fail() is the only terminal-status call.
C18_NoLicenseFails ==
    cause.exc = "InsufficientESLicenseError" =>
        /\ job_type = "access_control"
        /\ ~Called("async_bulk")
        /\ sync_orchestrator \in {"created", "canceled"}
        /\ job_reporting_task = "none"
        /\ sync_status = "error"
        /\ sync_error = "InsufficientESLicenseError"
        /\ TerminalOpsCalled \subseteq {"fail"}
        /\ CleanEnd => TerminalCalls = << Call("fail", None, "InsufficientESLicenseError") >>

\* An AccessControl run without the Platinum license ended with fail().
C18_UnlicensedRunFailed ==
    /\ cause.exc = "InsufficientESLicenseError"
    /\ CleanEnd
    /\ Called("fail")
    /\ Called("sync_orchestrator.close")

\* C20: the reporting task writes update_metadata only while no
\* terminal-status call has been made in the run, and once a terminal call
\* is made the task is not pending any more.
C20_ReporterWritesBeforeTerminal ==
    [][ /\ ReporterPersists => TerminalCalls = << >>
        /\ TerminalCalls' # << >> =>
                job_reporting_task' \in {"none"} \cup ReporterEnded ]_vars

\* The reporting task persisted the provider's last cursor, and the run
\* then made its terminal call.
C20_WroteThenFinalized ==
    /\ job_reporting_task = "cancelled"
    /\ job_doc.exists
    /\ job_doc.sync_cursor = MaxCursor
    /\ Len(TerminalCalls) = 1

(* ------------------------------ C13 ------------------------------------ *)

\* What generator() alone has yielded so far agrees with the provider's
\* documents in number and in order.
YieldedInOrder ==
    /\ Len(stream) = gen.pos
    /\ \A k \in 1..Len(stream) : stream[k].doc.key = k /\ stream[k].doc.id = source[k].id

\* C13: once generator() has been started it iterates exactly one provider
\* method, chosen by the job type and the provider: a Full job iterates
\* get_docs and tags every item Index; an Incremental job whose provider
\* overrides get_docs_incrementally iterates that method (so never get_docs),
\* gives it the Connector's sync_cursor and passes the provider's operation
\* tags through; an Incremental job whose provider keeps the default
\* iterates get_docs and tags every item Index; an AccessControl job
\* iterates get_access_control and yields every item with no download handle
\* and no operation; any other job type raises UnsupportedJobType without
\* yielding anything.
C13_GeneratorSelectsMethod ==
    (consumer = "generator" /\ gen.state # "new") =>
        /\ job_type = "full" =>
              /\ gen.state # "raised"
              /\ gen.method = "get_docs"
              /\ YieldedInOrder
              /\ \A k \in 1..Len(stream) : stream[k].operation = OP_INDEX
        /\ (job_type = "incremental" /\ provider_kind = "overrides") =>
              /\ gen.state # "raised"
              /\ gen.method = "get_docs_incrementally"
              /\ gen.sync_cursor = connector.sync_cursor
              /\ YieldedInOrder
              /\ \A k \in 1..Len(stream) : stream[k].operation = source[k].op
        /\ (job_type = "incremental" /\ provider_kind = "default") =>
              /\ gen.state # "raised"
              /\ gen.method = "get_docs"
              /\ YieldedInOrder
              /\ \A k \in 1..Len(stream) : stream[k].operation = OP_INDEX
        /\ job_type = "access_control" =>
              /\ gen.state # "raised"
              /\ gen.method = "get_access_control"
              /\ YieldedInOrder
              /\ \A k \in 1..Len(stream) :
                    stream[k].lazy_download = "None" /\ stream[k].operation = "None"
        /\ job_type \notin JobTypes =>
              /\ gen.state = "raised"
              /\ gen.exc = "UnsupportedJobType"
              /\ stream = << >>

\* An Incremental job of an overriding provider has yielded all its
\* documents, a deletion among them.
C13_IncrementalPassedThrough ==
    /\ consumer = "generator"
    /\ job_type = "incremental"
    /\ provider_kind = "overrides"
    /\ gen.state = "exhausted"
    /\ Len(stream) = MaxDocs
    /\ \E k \in 1..Len(stream) : stream[k].operation = "delete"

(* ------------------------------ C14 ------------------------------------ *)

\* The positions in the stream of the provider's k-th document.
StreamIndexesOf(k) == {j \in 1..Len(stream) : stream[j].doc.key = k}

\* C14: of the documents prepare_docs has taken from generator(), one
\* whose id is longer than ES_ID_SIZE_LIMIT in UTF-8 bytes is forwarded with
\* hash_id(id) as its id, or not forwarded at all when the hashed id is
\* longer than the limit too, and the documents after it are still
\* processed; one whose id is at most the limit (exactly the limit
\* included) is forwarded with its id unchanged; and the forwarded documents
\* are in the order generator() yielded them.
C14_LongIdsHashedOrSkipped ==
    (consumer = "prepare_docs" /\ gen.state \in {"running", "exhausted"}) =>
        /\ \A j \in 1..Len(stream) : stream[j].doc.key \in 1..gen.pos
        /\ \A i, j \in 1..Len(stream) : i < j => stream[i].doc.key < stream[j].doc.key
        /\ \A k \in 1..gen.pos :
              LET id == source[k].id
              IN  /\ id.bytes <= ES_ID_SIZE_LIMIT =>
                        \E j \in StreamIndexesOf(k) : stream[j].doc.id = id
                  /\ (id.bytes > ES_ID_SIZE_LIMIT /\ id.hash_bytes <= ES_ID_SIZE_LIMIT) =>
                        \E j \in StreamIndexesOf(k) :
                            /\ stream[j].doc.id.text = "hash"
                            /\ stream[j].doc.id.bytes = id.hash_bytes
                  /\ (id.bytes > ES_ID_SIZE_LIMIT /\ id.hash_bytes > ES_ID_SIZE_LIMIT) =>
                        StreamIndexesOf(k) = {}

\* The first document was skipped for its hashed id; the second, whose id
\* has ES_ID_SIZE_LIMIT characters but more bytes, was forwarded hashed.
C14_SkippedThenHashed ==
    /\ consumer = "prepare_docs"
    /\ gen.state = "exhausted"
    /\ Len(source) = 2
    /\ source[1].id.bytes > ES_ID_SIZE_LIMIT
    /\ source[1].id.hash_bytes > ES_ID_SIZE_LIMIT
    /\ source[2].id.chars = ES_ID_SIZE_LIMIT
    /\ source[2].id.bytes > ES_ID_SIZE_LIMIT
    /\ Len(stream) = 1
    /\ stream[1].doc.key = 2
    /\ stream[1].doc.id.text = "hash"

(* ------------------------------ C15 ------------------------------------ *)

\* The document of a stream item has the three flags, equal to the Job's
\* pipeline settings.
Stamped(item) ==
    /\ {"extract_binary_content", "reduce_whitespace", "run_ml_inference"}
          \subseteq DOMAIN item.doc
    /\ item.doc.extract_binary_content = pipeline.extract_binary_content
    /\ item.doc.reduce_whitespace = pipeline.reduce_whitespace
    /\ item.doc.run_ml_inference = pipeline.run_ml_inference

\* C15 as stated: every document in the stream given to async_bulk, for
\* every job type, carries the three flags equal to the Job's pipeline
\* settings.
C15_EveryDocumentStamped ==
    \A k \in 1..Len(stream) : Stamped(stream[k])

\* C15: every document in the stream given to async_bulk by a Full or an
\* Incremental job carries the three flags equal to the Job's pipeline
\* settings; an AccessControl job gives async_bulk generator() itself, whose
\* documents carry none of the flags.
C15_ContentDocumentsStamped ==
    /\ job_type \in {"full", "incremental"} =>
          \A k \in 1..Len(stream) : Stamped(stream[k])
    /\ job_type = "access_control" =>
          \A k \in 1..Len(stream) :
              DOMAIN stream[k].doc \cap
                 {"extract_binary_content", "reduce_whitespace", "run_ml_inference"} = {}

\* The sink of an Incremental job has taken all the documents of its stream.
C15_IncrementalStreamTaken ==
    /\ job_type = "incremental"
    /\ sync_orchestrator = "done"
    /\ Len(stream) = MaxDocs
    /\ Stamped(stream[MaxDocs])

(* ------------------------------ C19 ------------------------------------ *)

\* A Full job whose documents all have ids within the limit started its
\* sink, and execute() has returned without anything having been raised.
FullRunEnded ==
    /\ job_type = "full"
    /\ \A k \in 1..Len(source) : source[k].id.bytes <= ES_ID_SIZE_LIMIT
    /\ Called("async_bulk")
    /\ Ended
    /\ exc = "none"
    /\ cause.exc = "none"

\* C19: when a Full job whose provider's n documents all have ids of at
\* most ES_ID_SIZE_LIMIT bytes has run with no failure and no cancellation,
\* the sink's stream has received exactly those n documents in the
\* provider's order, each with its id unchanged, tagged Index and carrying
\* the pipeline flags; the one terminal-status call of the run is done(), and
\* the counters _sync_done took for it are those the sink reports for that
\* stream.
C19_FullRunIndexesAll ==
    FullRunEnded =>
        /\ Len(stream) = Len(source)
        /\ \A k \in 1..Len(stream) :
              /\ stream[k].doc.key = k
              /\ stream[k].doc.id = source[k].id
              /\ stream[k].operation = OP_INDEX
              /\ Stamped(stream[k])
        /\ Len(TerminalCalls) = 1
        /\ TerminalCalls[1].op = "done"
        /\ ingestion_stats = SinkStats(stream)

\* A Full job ended after the sink took MaxDocs documents and counted them.
C19_FullRunCounted ==
    /\ FullRunEnded
    /\ Len(stream) = MaxDocs
    /\ Called("done")
    /\ ingestion_stats.indexed_document_count = MaxDocs
    /\ job_doc.ingestion_stats = ingestion_stats

(* ------------------------------ C21 ------------------------------------ *)

\* The step _sync_done takes from await point p.
SyncDoneStep(p) == pc = p /\ pc' # p

\* The step neither raises nor calls a collaborator.
Skips == calls' = calls /\ exc' = exc /\ level' = level

\* C21: in _sync_done, when the reload of line 370 finds no Job, no
\* terminal-status call is made and control goes on to the Connector
\* (line 385), where connector.sync_done is called with a null job; when the
\* reload of line 371 finds no Connector the document count is skipped and
\* the terminal-status call is still made; when the reload of line 385 finds
\* no Connector, connector.sync_done is skipped and _sync_done returns.  None
\* of these steps raises.
C21_MissingRecordsSkipped ==
    [][ /\ (SyncDoneStep("sd_reload_job") /\ ~job_doc.exists) =>
              pc' = "sd_reload_connector2" /\ Skips
        /\ (SyncDoneStep("sd_connector_sync_done") /\ ~job_doc.exists /\ connector_doc.exists) =>
              /\ calls' = Append(calls, Call("connector.sync_done", FinalCursor, "None"))
              /\ pc' = "finally"
              /\ exc' = exc
        /\ (SyncDoneStep("sd_reload_connector") /\ ~connector_doc.exists) =>
              pc' = "sd_terminal" /\ Skips
        /\ (SyncDoneStep("sd_terminal") /\ job_doc.exists) =>
              /\ calls' = Append(calls, Call(TerminalOp(sync_status), None, sync_error))
              /\ pc' = "sd_reload_connector2"
              /\ exc' = exc
              /\ level' = level
        /\ (SyncDoneStep("sd_reload_connector2") /\ ~connector_doc.exists) =>
              pc' = "finally" /\ calls' = calls /\ exc' = exc
      ]_vars

\* A run ended without raising after its Job was deleted: no terminal-status
\* call was made and the Connector was told of the end with a null job.
C21_JobGoneConnectorTold ==
    /\ Ended
    /\ PastStart
    /\ exc = "none"
    /\ ~job_doc.exists
    /\ TerminalCalls = << >>
    /\ \E i \in CallIndexes : calls[i].op = "connector.sync_done" /\ calls[i].info = "None"

(* ------------------------------ C22 ------------------------------------ *)

\* The Connector document says a job of the family of job_type is InProgress.
SameFamilyInProgress ==
    \/ job_type \in {"full", "incremental"} /\ connector_doc.last_sync_status = "in_progress"
    \/ job_type = "access_control"
          /\ connector_doc.last_access_control_sync_status = "in_progress"

\* C22: the reload and the checks of sync_starts end the start with
\* SyncJobStartError, before connector.sync_starts is called and with the
\* Connector document untouched, when the Connector cannot be reloaded, when
\* the job type is unknown or when the Connector's last sync status of the
\* job's own family is InProgress; in every other case, an InProgress
\* status of the other family included, they raise nothing and
\* connector.sync_starts is called next.
C22_StartChecks ==
    [][ (pc = "ss_reload" /\ pc' # pc) =>
            IF ~connector_doc.exists \/ job_type \notin JobTypes \/ SameFamilyInProgress
            THEN /\ pc' = "ended"
                 /\ exc' = "SyncJobStartError"
                 /\ calls' = calls
                 /\ connector_doc' = connector_doc
            ELSE /\ pc' = "ss_call"
                 /\ exc' = exc
      ]_vars

\* An AccessControl job has started on a Connector whose content family is
\* InProgress.
C22_OtherFamilyStarted ==
    /\ job_type = "access_control"
    /\ Called("connector.sync_starts")
    /\ connector_doc.last_sync_status = "in_progress"

(* ------------------------------ C23 ------------------------------------ *)

\* C23: the await of connector.sync_starts(job_type) in sync_starts ends in
\* one of three ways: the call succeeds, which it does only without a
\* conflict; a conflict of the store leaves sync_starts as ConflictError,
\* nothing having been written and no second call made; anything else the
\* call raises leaves sync_starts as SyncJobStartError, never as the
\* exception itself (the cancellation of the task, which is not an
\* Exception, passes through).
C23_ConflictPropagates ==
    [][ (pc = "ss_call" /\ pc' # pc) =>
            \/ /\ pc' = "claim"
               /\ connector_doc.exists
               /\ ~Conflicts(connector_doc, connector)
            \/ /\ pc' = "ended"
               /\ exc' = "ConflictError"
               /\ connector_doc.exists
               /\ Conflicts(connector_doc, connector)
               /\ calls' = calls
               /\ connector_doc' = connector_doc
            \/ /\ pc' = "ended"
               /\ exc' \in {"SyncJobStartError", "CancelledError"}
               /\ calls' = calls
               /\ connector_doc' = connector_doc
      ]_vars

\* execute() was left with the store's conflict.
C23_ConflictLeftExecute ==
    /\ Ended
    /\ level = "start"
    /\ exc = "ConflictError"
    /\ ~Called("connector.sync_starts")

(* ------------------------------ C24 ------------------------------------ *)

\* The poll raises e in the try body: the except clause of e calls
\* _sync_done with status st and, for Error, with e as the error.
PollRaises(e, st) ==
    /\ pc' = "sd_begin"
    /\ level' = "handler"
    /\ cause' = [exc |-> e, at |-> "reporting"]
    /\ sync_status' = st
    /\ sync_error' = IF st = "error" THEN e ELSE "none"

\* The poll step raises nothing.
PollPasses(p) == pc' = p /\ level' = level /\ exc' = exc /\ cause' = cause

\* C24: a poll of the Reporting loop reloads the Connector and then the
\* Job.  A missing Connector raises ConnectorNotFoundError whatever the Job
\* is; with the Connector there, a missing Job raises
\* ConnectorJobNotFoundError, a Job that is Canceling raises
\* ConnectorJobCanceledError and a Job in any other status than InProgress
\* raises ConnectorJobNotRunningError.  The not-found and not-running
\* exceptions reach _sync_done with status Error, the cancel request with
\* status Canceled.  A poll that finds both records and the Job InProgress
\* raises nothing and the loop goes on to its sleep.
C24_PollPrecedence ==
    [][ /\ (pc = "check_connector" /\ pc' # pc) =>
              IF ~connector_doc.exists
              THEN PollRaises("ConnectorNotFoundError", "error")
              ELSE PollPasses("check_job")
        /\ (pc = "check_job" /\ pc' # pc) =>
              IF ~job_doc.exists
              THEN PollRaises("ConnectorJobNotFoundError", "error")
              ELSE IF job_doc.status = "canceling"
                   THEN PollRaises("ConnectorJobCanceledError", "canceled")
                   ELSE IF job_doc.status # "in_progress"
                        THEN PollRaises("ConnectorJobNotRunningError", "error")
                        ELSE PollPasses("sleep")
      ]_vars

\* A run whose poll found the Job in another status than InProgress has
\* ended with fail() as its terminal-status call.
C24_NotRunningFailed ==
    /\ CleanEnd
    /\ cause = [exc |-> "ConnectorJobNotRunningError", at |-> "reporting"]
    /\ Len(TerminalCalls) = 1
    /\ TerminalCalls[1].op = "fail"
    /\ TerminalCalls[1].info = "ConnectorJobNotRunningError"

(* ------------------------------ C25 ------------------------------------ *)

\* changed() returned true and then validate_config_fields(),
\* validate_config() or ping() raised: an exception was raised in the try
\* body before ping() had returned.
ValidationFailed ==
    /\ \E i \in CallIndexes : calls[i].op = "changed" /\ calls[i].info = "true"
    /\ ~Called("ping")
    /\ cause.exc \notin {"none", "CancelledError"}

\* C25: once validate_config_fields, validate_config or ping has raised,
\* the SyncOrchestrator is never created nor started, the reporting task is
\* never created, no stream of documents is given to anyone, _sync_done is
\* called with status Error and reads no counters from a sink, so that the
\* three counters it persists are 0; the only terminal-status call of the run
\* is fail(), and a run that returns with the Job still there has made it.
C25_ValidationFailureFails ==
    ValidationFailed =>
        /\ sync_orchestrator = "none"
        /\ ~Called("async_bulk")
        /\ job_reporting_task = "none"
        /\ ~Called("create_task")
        /\ consumer = "none"
        /\ gen.state = "new"
        /\ stream = << >>
        /\ sync_status = "error"
        /\ ~Called("ingestion_stats")
        /\ ingestion_stats = NoStats
        /\ TerminalOpsCalled \subseteq {"fail"}
        /\ CleanEnd => Len(TerminalCalls) = 1

\* A run whose validation or ping raised has ended, failed with counters of 0.
C25_ValidationFailedRun ==
    /\ ValidationFailed
    /\ CleanEnd
    /\ TerminalCalls[1].op = "fail"
    /\ job_doc.status = "error"
    /\ job_doc.ingestion_stats = NoStats

(* ------------------------------ C26 ------------------------------------ *)

\* The Reporting loop was left by its own test: _sync_done is running, called
\* from the try body after the sink was started.
LoopEndedNormally ==
    /\ Called("async_bulk")
    /\ level = "body"
    /\ pc \in {"sd_begin", "sd_await_reporter", "sd_cancel", "sd_reload_job",
               "sd_reload_connector", "sd_document_count", "sd_terminal",
               "sd_reload_connector2", "sd_connector_sync_done"}

\* C26: the Reporting loop is left without an exception only when the sink
\* is done (it is still done, not yet cancelled, when _sync_done begins);
\* _sync_done is then called with status Completed when the sink's error is
\* null and with status Error and that error otherwise, and a run finalized
\* that way which returns with the Job still there has made one
\* terminal-status call: done() in the first case, fail() with the sink's
\* error in the second.
C26_LoopEndsWhenSinkDone ==
    /\ LoopEndedNormally =>
          /\ SinkDone
          /\ pc \in {"sd_begin", "sd_await_reporter", "sd_cancel"} => sync_orchestrator = "done"
          /\ sync_status = IF sink_error = "none" THEN "completed" ELSE "error"
          /\ sync_error = sink_error
    /\ (CleanEnd /\ Called("async_bulk") /\ cause.exc = "none") =>
          /\ Len(TerminalCalls) = 1
          /\ TerminalCalls[1].op = IF sink_error = "none" THEN "done" ELSE "fail"
          /\ TerminalCalls[1].info = sink_error

\* A run whose sink ended with an error has returned, failed with that error.
C26_SinkErrorFailed ==
    /\ CleanEnd
    /\ Called("async_bulk")
    /\ cause.exc = "none"
    /\ sink_error = "SinkError"
    /\ TerminalCalls[1].op = "fail"
    /\ TerminalCalls[1].info = "SinkError"

(* ------------------------------ C27 ------------------------------------ *)

\* C27: when the reporting task wakes from its sleep and cannot reload the
\* Job, it ends there: that step asks for no flush, writes nothing to the
\* store and changes nothing in execute() (no exception, no status); and a
\* reporting task that has ended this way stays ended, so that no flush and
\* no update_metadata of its own follows, and it is never cancelled.
C27_ReporterStopsForGood ==
    [][ /\ (/\ job_reporting_task = "sleep"
            /\ job_reporting_task' # "sleep"
            /\ ~reporter_cancel
            /\ ~job_doc.exists) =>
              /\ job_reporting_task' = "finished"
              /\ tick_flushed' = FALSE
              /\ UNCHANGED <<ctl, stores, objects, calls>>
        /\ job_reporting_task = "finished" =>
              /\ job_reporting_task' = "finished"
              /\ tick_flushed' = FALSE
              /\ job_doc' = job_doc
              /\ reporter_cancel' = reporter_cancel
      ]_vars

\* The reporting task stopped on a deleted Job and execute() returned
\* without any exception having been raised.
C27_ReporterStoppedRunReturned ==
    /\ job_reporting_task = "finished"
    /\ ~job_doc.exists
    /\ Ended
    /\ exc = "none"
    /\ cause.exc = "none"

(* ------------------------------ C28 ------------------------------------ *)

\* What a step of _sync_done around the reporting task must do: a task
\* still pending when _sync_done begins is cancelled and awaited next; the
\* await changes neither the status and error _sync_done was called with nor
\* the exception state of execute().
ReporterCancelledAndAwaited ==
    /\ (pc = "sd_begin" /\ pc' # pc /\ level' = level /\ ReporterPending) =>
          /\ reporter_cancel'
          /\ pc' = "sd_await_reporter"
    /\ pc = "sd_await_reporter" =>
          /\ sync_status' = sync_status
          /\ sync_error' = sync_error
          /\ level' = level
          /\ exc' = exc
          /\ cause' = cause
          /\ pc' # pc => job_reporting_task = "cancelled"

\* C28: _sync_done cancels a reporting task that is still pending and
\* awaits it; the task's cancellation is swallowed there and leaves the
\* status being persisted as it was, so that a run finalized as Completed
\* whose reporting task was cancelled still makes done() its terminal-status
\* call; and once execute() has ended the reporting task is not pending.
C28_ReporterCancelledQuietly ==
    /\ [][ReporterCancelledAndAwaited]_vars
    /\ [](Ended => ~ReporterPending)
    /\ []((CleanEnd /\ cause.exc = "none" /\ job_reporting_task = "cancelled"
             /\ sync_status = "completed") =>
            (Len(TerminalCalls) = 1 /\ TerminalCalls[1].op = "done"))

\* A run has returned as Completed after its reporting task was cancelled.
C28_CancelledReporterCompletedRun ==
    /\ CleanEnd
    /\ cause.exc = "none"
    /\ job_reporting_task = "cancelled"
    /\ sync_status = "completed"
    /\ Called("job_reporting_task.await")
    /\ TerminalCalls[1].op = "done"

(* ------------------------------ C29 ------------------------------------ *)

\* The Connector is native, its native-API-key feature is enabled and the
\* service configuration does not disable the use of these keys.
ExchangeApplies ==
    /\ native_keys.native
    /\ native_keys.native_connector_api_keys_enabled
    /\ native_keys.use_native_connector_api_keys

\* The lookup of the secret ended that way.
LookedUp(how) ==
    \E i \in CallIndexes : calls[i].op = "get_connector_secret" /\ calls[i].info = how

\* C29: the secret is looked up only when the Connector is native, its
\* native-API-key feature is enabled and the service configuration does not
\* disable it, and in that case a run that got past ping() has looked it up
\* (or is doing so) before the SyncOrchestrator exists; every lookup,
\* whatever its outcome, is followed by the closing of the management
\* client; and when the key was not found the try body has raised
\* ApiKeyNotFoundError, the SyncOrchestrator is never created nor started,
\* _sync_done is called with status Error and that exception, fail() is the
\* only terminal-status call, and a run that returns with the Job still
\* there has made it.
C29_CredentialExchange ==
    /\ Called("get_connector_secret") => ExchangeApplies
    /\ (ExchangeApplies /\ Called("ping") /\ pc # "native_auth") =>
          Called("get_connector_secret")
    /\ (ExchangeApplies /\ sync_orchestrator # "none") => LookedUp("found")
    /\ \A i \in CallIndexes :
          calls[i].op = "get_connector_secret" =>
              /\ i < Len(calls)
              /\ calls[i + 1].op = "es_management_client.close"
    /\ LookedUp("not found") =>
          /\ cause.exc = "ApiKeyNotFoundError"
          /\ sync_orchestrator = "none"
          /\ ~Called("async_bulk")
          /\ sync_status = "error"
          /\ sync_error = "ApiKeyNotFoundError"
          /\ TerminalOpsCalled \subseteq {"fail"}
          /\ CleanEnd => Len(TerminalCalls) = 1

\* A run of a native Connector whose key was missing has returned, failed.
C29_MissingKeyFailed ==
    /\ LookedUp("not found")
    /\ CleanEnd
    /\ Called("es_management_client.close")
    /\ TerminalCalls[1].op = "fail"
    /\ TerminalCalls[1].info = "ApiKeyNotFoundError"

(* ------------------------------ C30 ------------------------------------ *)

\* The Reporting loop of lines 208-210, in the try body.
InReportingLoop == pc \in {"check_connector", "check_job", "sleep"} /\ level = "body"

\* Both records are there and the Job is InProgress.
RecordsAsStarted ==
    /\ connector_doc.exists
    /\ job_doc.exists
    /\ job_doc.status = "in_progress"

\* execute() has ended after a call of _sync_done, with running reset and
\* no reporting task left pending.
EndedFinalized ==
    /\ Ended
    /\ sync_status # "none"
    /\ level = "finally"
    /\ ~running
    /\ ~ReporterPending

C31_RunningResetAtEnd == Ended => ~running

(* ------------------------------ C33 ------------------------------------ *)

\* execute() has ended in sync_starts on a Connector that was reloaded and
\* whose status for the family of the job was InProgress.
RejectedAsStarted ==
    /\ Ended
    /\ level = "start"
    /\ job_type \in JobTypes
    /\ StartRejected(job_type, connector)

\* C33: a run whose sync_starts found a job of the same family InProgress
\* has left execute() with SyncJobStartError before the try block, having
\* made no call at all on the Job, the Connector, the provider or the sink:
\* no connector.sync_starts, no claim, no terminal-status call, no
\* connector.sync_done.  _sync_done was not called, the Job is still Pending
\* and the Connector document is the one the run reloaded, with its
\* InProgress status.
C33_RejectedStartWritesNothing ==
    RejectedAsStarted =>
        /\ exc = "SyncJobStartError"
        /\ calls = << >>
        /\ sync_status = "none"
        /\ data_provider = "none"
        /\ sync_orchestrator = "none"
        /\ job_reporting_task = "none"
        /\ job_doc.exists
        /\ job_doc.status = "pending"
        /\ connector_doc.exists
        /\ LoadConnector(connector_doc) = connector
        /\ SameFamilyInProgress

\* A content job was rejected on a Connector whose content family is InProgress.
C33_ContentStartRejected ==
    /\ RejectedAsStarted
    /\ job_type = "incremental"
    /\ exc = "SyncJobStartError"
    /\ connector_doc.last_sync_status = "in_progress"
    /\ calls = << >>

(* ------------------------------ C32 ------------------------------------ *)

\* The reporting task ends with an exception of its own.
ReporterFails == job_reporting_task # "failed" /\ job_reporting_task' = "failed"

\* The status and the error _sync_done is given when the run raised nothing
\* (the sink's) and when it raised e (those of the except clause of e).
DecidedStatus ==
    IF cause.exc = "none"
    THEN IF sink_error = "none" THEN "completed" ELSE "error"
    ELSE StatusOf(cause.exc)

DecidedError == IF cause.exc = "none" THEN sink_error ELSE ErrorOf(cause.exc)

\* C32: the step in which the reporting task ends with an exception changes
\* nothing of execute(): not its await point, no exception, no status, no
\* call, not the sink nor the records.  With the task ended that way the
\* Reporting loop is left as it is otherwise, by the sleep that finds the
\* sink done or by an exception raised at the poll or the sleep; the task
\* is never cancelled nor awaited, so its exception is not raised in
\* _sync_done; and the status and the error given to _sync_done are those
\* of the sink, or of the exception execute() itself raised.
C32_ReporterFailureStaysInReporter ==
    /\ [][ReporterFails =>
             UNCHANGED <<pc, level, exc, sync_status, sync_error, cause, running, calls,
                         sync_orchestrator, sink_error, job_doc, connector_doc>>]_vars
    /\ [][(job_reporting_task = "failed" /\ InReportingLoop /\ ~InReportingLoop') =>
             /\ pc' = "sd_begin"
             /\ \/ pc = "sleep" /\ SinkDone /\ cause' = cause /\ level' = level
                \/ /\ level' = "handler"
                   /\ cause'.at = "reporting"
                   /\ cause'.exc \in {"ConnectorNotFoundError", "ConnectorJobNotFoundError",
                                      "ConnectorJobCanceledError",
                                      "ConnectorJobNotRunningError", "CancelledError",
                                      "Exception"}]_vars
    /\ [](job_reporting_task = "failed" =>
             /\ ~reporter_cancel
             /\ ~Called("job_reporting_task.cancel")
             /\ ~Called("job_reporting_task.await")
             /\ sync_status # "none" =>
                   (sync_status = DecidedStatus /\ sync_error = DecidedError))

\* A run whose reporting task failed, the Job still being there, has
\* returned as Completed with done() as its terminal-status call.
C32_FailedReporterCompletedRun ==
    /\ CleanEnd
    /\ job_reporting_task = "failed"
    /\ cause.exc = "none"
    /\ sync_status = "completed"
    /\ Len(TerminalCalls) = 1
    /\ TerminalCalls[1].op = "done"

====
